---- MODULE Spec2Model ----
(***************************************************************************)
(* Model of the FRI reduced opening chip                                   *)
(* (extensions/native/circuit/src/fri/mod.rs) and of the generic           *)
(* adapter/core chip wrapper (vm/src/arch/integration_api.rs).             *)
(***************************************************************************)
EXTENDS Integers, Sequences, FiniteSets, TLC

\* ------------------------------------------------------------------ bounds
\* Largest loop length laid out in the initial memory.
MaxLen == 2
\* Number of execute calls made on the FRI chip in one run.
MaxInstr == 2

\* Number of execute calls made on the generic chip wrapper in one run.
MaxWrapperInstr == 3

\* Columns of the adapter's AIR and of the core's AIR behind the wrapper.
AdapterWidth == 2
CoreWidth == 3

\* Largest NUM_READS / NUM_WRITES and READ_SIZE / WRITE_SIZE of an interface.
MaxBatches == 2
MaxBatchSize == 2
\* Number of interface conversions chained in one run.
MaxConv == 2
\* Longest row sequence handed to the AIR, and the largest number of
\* disabled rows in it.
MaxAirRows == 5
MaxDisabled == 1

\* ------------------------------------------------------- field arithmetic
\* Modulus of the base field F (F: PrimeField32); small, but larger than
\* every pointer and timestamp the model reaches.
P == 127
\* Degree of the extension field.
EXT_DEG == 4
\* The extension is F[x] / (x^EXT_DEG - W).
W == 11
DEFAULT_PC_STEP == 4

F == 0 .. (P - 1)

from_canonical(n) == n % P

ExtZero == [k \in 1 .. EXT_DEG |-> 0]

\* elem_to_ext: the base-field element in the leading component.
elem_to_ext(elem) == [k \in 1 .. EXT_DEG |-> IF k = 1 THEN elem ELSE 0]

\* FieldExtension::add
add(x, y) == [k \in 1 .. EXT_DEG |-> (x[k] + y[k]) % P]

\* FieldExtension::subtract
subtract(x, y) == [k \in 1 .. EXT_DEG |-> (x[k] + P - y[k]) % P]

\* Coefficient k of x * y, summed over the index i of x: the terms that wrap
\* past x^(EXT_DEG - 1) are reduced by x^EXT_DEG = W.
RECURSIVE MulCoeff(_, _, _, _)
MulCoeff(x, y, k, i) ==
    IF i > EXT_DEG THEN 0
    ELSE (IF i <= k THEN x[i] * y[k - i + 1]
          ELSE W * x[i] * y[k - i + 1 + EXT_DEG])
         + MulCoeff(x, y, k, i + 1)

\* FieldExtension::multiply
multiply(x, y) == [k \in 1 .. EXT_DEG |-> MulCoeff(x, y, k, 1) % P]

\* ------------------------------------------------------------ the memory
AddrSpaces == {1, 2}

\* Layout of address space 1: alpha, length, the two pointer cells, the a
\* array, the b array, the result.
LengthPtr == EXT_DEG
AlphaPtr == LengthPtr - EXT_DEG
APtrPtr == EXT_DEG + 1
BPtrPtr == EXT_DEG + 2
ABase == EXT_DEG + 3
BBase == ABase + MaxLen
ResPtr == BBase + EXT_DEG * MaxLen
MemSize == ResPtr + EXT_DEG

Ptrs == 0 .. (MemSize - 1)

\* A memory operation is accepted when its address space exists and all of
\* its cells lie inside the address space.
InBounds(as, ptr, n) == as \in AddrSpaces /\ ptr + n <= MemSize

\* read / read_cell / write of the memory controller: one log record and one
\* timestamp tick per accepted operation, whatever the batch size.  A
\* rejected operation panics: nothing after it runs (ok = FALSE).
MemAccess(M, kind, as, ptr, n, data) ==
    IF ~M.ok THEN M
    ELSE IF ~InBounds(as, ptr, n) THEN [M EXCEPT !.ok = FALSE]
    ELSE LET val == IF kind = "write" THEN data
                    ELSE [k \in 1 .. n |-> M.cells[as][ptr + k - 1]]
             old == [k \in 1 .. n |-> M.cells[as][ptr + k - 1]]
             rec == [kind |-> kind, address_space |-> as, pointer |-> ptr,
                     data |-> val, prev_data |-> old, timestamp |-> M.ts]
         IN  [ok |-> TRUE,
              cells |-> IF kind # "write" THEN M.cells
                        ELSE [M.cells EXCEPT ![as] =
                                [q \in Ptrs |->
                                   IF q >= ptr /\ q < ptr + n
                                   THEN data[q - ptr + 1] ELSE @[q]]],
              log |-> Append(M.log, rec),
              ts |-> M.ts + 1]

\* The (RecordId, value) pair the last accepted operation returned.
LastId(M) == Len(M.log)
LastData(M) == IF M.ok /\ Len(M.log) > 0 THEN M.log[Len(M.log)].data ELSE <<0, 0, 0, 0>>

\* OfflineMemory::record_by_id
record_by_id(log, id) == log[id]

\* ----------------------------------------------------------- FRI chip state
VARIABLES
    mem,        \* the memory controller: cells, log, timestamp, ok
    records,    \* FriReducedOpeningChip::records
    height,     \* FriReducedOpeningChip::height
    vm,         \* the ExecutionState the next instruction starts from
    trace,      \* the matrix generate_air_proof_input returned (<<>> before)
    saved,      \* the bytes the last store_state returned
    savedFrom,  \* the records and height the chip held at that store_state
    phase,      \* "run", "aborted" (a call panicked) or "done" (chip consumed)
    nexec,      \* number of execute calls made so far
    last        \* what the last call was given and what it returned

chipvars == <<mem, records, height, vm, trace, saved, savedFrom, phase, nexec, last>>

\* One instruction row counted instead of two.
get_height_one_ins_row(record) == Len(record.a_reads) + 1

\* FriReducedOpeningRecord::get_height
get_height(record) == Len(record.a_reads) + 2

\* The per-iteration reads of execute: a[i] then b[i], for i ascending.
RECURSIVE ReadLoop(_, _, _, _, _, _)
ReadLoop(acc, as, a_ptr, b_ptr, i, length) ==
    IF i >= length \/ ~acc.M.ok THEN acc
    ELSE LET M1 == MemAccess(acc.M, "read", as, (a_ptr + from_canonical(i)) % P, 1, <<>>)
             M2 == MemAccess(M1, "read", as,
                             (b_ptr + from_canonical(EXT_DEG * i)) % P, EXT_DEG, <<>>)
         IN  ReadLoop([M |-> M2,
                       a_reads |-> Append(acc.a_reads, <<LastId(M1), LastData(M1)[1]>>),
                       b_reads |-> Append(acc.b_reads, <<LastId(M2), LastData(M2)>>)],
                      as, a_ptr, b_ptr, i + 1, length)

\* result = result * alpha + (b - a)
fold_step(res, al, a, b) == add(multiply(res, al), subtract(b, elem_to_ext(a)))

\* The fold taken over the reads in execution order (no .rev()).
RECURSIVE FoldFwd(_, _, _, _, _)
FoldFwd(a_reads, b_reads, al, k, res) ==
    IF k = 0 THEN res
    ELSE LET j == Len(a_reads) - k + 1
         IN  FoldFwd(a_reads, b_reads, al, k - 1,
                     fold_step(res, al, a_reads[j][2], b_reads[j][2]))

\* The fold of execute over a_reads.iter().rev() zipped with
\* b_reads.iter().rev(); k reads are still to be folded.
RECURSIVE FoldRev(_, _, _, _, _)
FoldRev(a_reads, b_reads, al, k, res) ==
    IF k = 0 THEN res
    ELSE FoldRev(a_reads, b_reads, al, k - 1,
                 fold_step(res, al, a_reads[k][2], b_reads[k][2]))

Ids(reads) == [k \in 1 .. Len(reads) |-> reads[k][1]]

\* The record pushed although the write was rejected.
push_before_write(M, recs, h, record, from_state) ==
    [mem |-> M,
     records |-> Append(recs, record),
     height |-> h + get_height(record),
     outcome |-> IF M.ok THEN "Ok" ELSE "panic",
     to_state |-> IF M.ok
                  THEN [pc |-> from_state.pc + DEFAULT_PC_STEP, timestamp |-> M.ts]
                  ELSE from_state]

\* The end timestamp taken as the start plus the reads, the write left out.
return_without_write_tick(M, recs, h, record, from_state) ==
    IF M.ok
    THEN [mem |-> M,
          records |-> Append(recs, record),
          height |-> h + get_height(record),
          outcome |-> "Ok",
          to_state |-> [pc |-> from_state.pc + DEFAULT_PC_STEP,
                        timestamp |-> from_state.timestamp
                                        + 2 * Len(record.a_reads) + 4]]
    ELSE [mem |-> M, records |-> recs, height |-> h,
          outcome |-> "panic", to_state |-> from_state]

\* The record put in front of the records held.
push_front_and_return(M, recs, h, record, from_state) ==
    IF M.ok
    THEN [mem |-> M,
          records |-> <<record>> \o recs,
          height |-> h + get_height(record),
          outcome |-> "Ok",
          to_state |-> [pc |-> from_state.pc + DEFAULT_PC_STEP,
                        timestamp |-> M.ts]]
    ELSE [mem |-> M, records |-> recs, height |-> h,
          outcome |-> "panic", to_state |-> from_state]

\* The end of execute, reached only when no memory operation panicked: the
\* height grows by the record's height, the record is pushed and
\* Ok(pc + DEFAULT_PC_STEP, memory.timestamp()) is returned.
push_and_return(M, recs, h, record, from_state) ==
    IF M.ok
    THEN [mem |-> M,
          records |-> Append(recs, record),
          height |-> h + get_height(record),
          outcome |-> "Ok",
          to_state |-> [pc |-> from_state.pc + DEFAULT_PC_STEP,
                        timestamp |-> M.ts]]
    ELSE [mem |-> M, records |-> recs, height |-> h,
          outcome |-> "panic", to_state |-> from_state]

\* FriReducedOpeningChip::execute on memory M, chip (recs, h).  The call
\* returns Ok(to_state) after pushing one record, or is cut short by the
\* panic of a rejected memory operation.
execute(M, recs, h, instruction, from_state) ==
    LET a_ptr_ptr == instruction.a
        b_ptr_ptr == instruction.b
        result_ptr == instruction.c
        addr_space == instruction.d
        length_ptr == instruction.e
        alpha_ptr == instruction.f
        M1 == MemAccess(M, "read", addr_space, alpha_ptr, EXT_DEG, <<>>)
        M2 == MemAccess(M1, "read", addr_space, length_ptr, 1, <<>>)
        M3 == MemAccess(M2, "read", addr_space, a_ptr_ptr, 1, <<>>)
        M4 == MemAccess(M3, "read", addr_space, b_ptr_ptr, 1, <<>>)
        alpha == LastData(M1)
        length == LastData(M2)[1]
        a_ptr == LastData(M3)[1]
        b_ptr == LastData(M4)[1]
        loop == ReadLoop([M |-> M4, a_reads |-> <<>>, b_reads |-> <<>>],
                         addr_space, a_ptr, b_ptr, 0, length)
        result == FoldRev(loop.a_reads, loop.b_reads, alpha, Len(loop.a_reads), ExtZero)
        M5 == MemAccess(loop.M, "write", addr_space, result_ptr, EXT_DEG, result)
        record == [pc |-> from_canonical(from_state.pc),
                   start_timestamp |-> from_canonical(from_state.timestamp),
                   instruction |-> instruction,
                   alpha_read |-> LastId(M1),
                   length_read |-> LastId(M2),
                   a_ptr_read |-> LastId(M3),
                   b_ptr_read |-> LastId(M4),
                   a_reads |-> Ids(loop.a_reads),
                   b_reads |-> Ids(loop.b_reads),
                   result_write |-> LastId(M5)]
    IN  push_and_return(M5, recs, h, record, from_state)

\* ------------------------------------------------ store_state / load_state
\* a_reads written in the place of b_reads.
SerRecord_a_reads_twice(r) ==
    <<r.pc, r.start_timestamp,
      r.instruction.a, r.instruction.b, r.instruction.c,
      r.instruction.d, r.instruction.e, r.instruction.f,
      r.alpha_read, r.length_read, r.a_ptr_read, r.b_ptr_read>>
    \o <<Len(r.a_reads)>> \o r.a_reads
    \o <<Len(r.a_reads)>> \o r.a_reads
    \o <<r.result_write>>

\* bitcode::serialize of one record: its fields in declaration order, the two
\* vectors each preceded by their length.
SerRecord(r) ==
    <<r.pc, r.start_timestamp,
      r.instruction.a, r.instruction.b, r.instruction.c,
      r.instruction.d, r.instruction.e, r.instruction.f,
      r.alpha_read, r.length_read, r.a_ptr_read, r.b_ptr_read>>
    \o <<Len(r.a_reads)>> \o r.a_reads
    \o <<Len(r.b_reads)>> \o r.b_reads
    \o <<r.result_write>>

RECURSIVE SerRecords(_)
SerRecords(recs) ==
    IF recs = <<>> THEN <<>>
    ELSE SerRecord(Head(recs)) \o SerRecords(Tail(recs))

\* store_state: the number of records, then the records.
store_state(recs) == <<Len(recs)>> \o SerRecords(recs)

Slice(bytes, from, n) == [k \in 1 .. n |-> bytes[from + k - 1]]

\* bitcode::deserialize of one record starting at position pos; returns the
\* record and the position after it.
DeRecord(bytes, pos) ==
    LET na == bytes[pos + 12]
        nb == bytes[pos + 13 + na]
    IN  [record |->
           [pc |-> bytes[pos],
            start_timestamp |-> bytes[pos + 1],
            instruction |-> [a |-> bytes[pos + 2], b |-> bytes[pos + 3],
                             c |-> bytes[pos + 4], d |-> bytes[pos + 5],
                             e |-> bytes[pos + 6], f |-> bytes[pos + 7]],
            alpha_read |-> bytes[pos + 8],
            length_read |-> bytes[pos + 9],
            a_ptr_read |-> bytes[pos + 10],
            b_ptr_read |-> bytes[pos + 11],
            a_reads |-> Slice(bytes, pos + 13, na),
            b_reads |-> Slice(bytes, pos + 14 + na, nb),
            result_write |-> bytes[pos + 14 + na + nb]],
         next |-> pos + 15 + na + nb]

RECURSIVE DeRecords(_, _, _)
DeRecords(bytes, pos, n) ==
    IF n = 0 THEN <<>>
    ELSE LET d == DeRecord(bytes, pos)
         IN  <<d.record>> \o DeRecords(bytes, d.next, n - 1)

deserialize(bytes) == DeRecords(bytes, 2, bytes[1])

RECURSIVE SumHeights(_)
SumHeights(recs) ==
    IF recs = <<>> THEN 0
    ELSE get_height(Head(recs)) + SumHeights(Tail(recs))

\* load_state: the records of the bytes, and the height recomputed from them.
load_state(bytes) ==
    LET recs == deserialize(bytes)
    IN  [records |-> recs, height |-> SumHeights(recs)]

\* ------------------------------------------------------- trace generation
WL_WIDTH == 26
INS_1_WIDTH == 25
INS_2_WIDTH == 20
GENERAL_WIDTH == 3
PREFIX_WIDTH == 16

const_max(a, b) == IF a < b THEN b ELSE a
OVERALL_WIDTH == const_max(const_max(WL_WIDTH, INS_1_WIDTH), INS_2_WIDTH)

\* Widths of MemoryReadAuxCols<T> and MemoryWriteAuxCols<T, EXT_DEG>, as the
\* asserted struct widths fix them.
READ_AUX_WIDTH == (WL_WIDTH - PREFIX_WIDTH - EXT_DEG) \div 2
WRITE_AUX_WIDTH == INS_2_WIDTH - GENERAL_WIDTH - 4 - 2 * READ_AUX_WIDTH

ZeroRow == [k \in 1 .. OVERALL_WIDTH |-> 0]

\* Timestamp of the previous logged access to the first cell of record id.
PrevTimestamp(log, id) ==
    LET r == log[id]
        earlier == {j \in 1 .. (id - 1) :
                      /\ log[j].address_space = r.address_space
                      /\ log[j].pointer <= r.pointer
                      /\ r.pointer < log[j].pointer + Len(log[j].data)}
    IN  IF earlier = {} THEN 0
        ELSE log[CHOOSE j \in earlier : \A k \in earlier : k <= j].timestamp

\* MemoryAuxColsFactory::make_read_aux_cols: previous timestamp and the
\* decomposition of the timestamp gap.
make_read_aux_cols(log, id) ==
    LET prev == PrevTimestamp(log, id)
    IN  [k \in 1 .. READ_AUX_WIDTH |->
           IF k = 1 THEN from_canonical(prev)
           ELSE IF k = 2 THEN from_canonical(log[id].timestamp - prev - 1)
           ELSE 0]

\* MemoryAuxColsFactory::make_write_aux_cols: the read columns, then the data
\* the write replaced.
make_write_aux_cols(log, id) ==
    make_read_aux_cols(log, id)
    \o [k \in 1 .. (WRITE_AUX_WIDTH - READ_AUX_WIDTH) |-> log[id].prev_data[k]]

\* `*cols = ...` on slice[start .. start + width]: the leading columns of
\* the row are replaced, the others keep what the buffer held.
Overlay(row, cols) ==
    [k \in 1 .. OVERALL_WIDTH |-> IF k <= Len(cols) THEN cols[k] ELSE row[k]]

\* Column accessors, by the #[repr(C)] struct layouts (1-based).
is_workload_row(row) == row[1]
is_ins_row(row) == row[2]
timestamp(row) == row[3]
a_or_is_first(row) == row[GENERAL_WIDTH + 1]
addr_space(row) == row[GENERAL_WIDTH + 2]
a_ptr(row) == row[GENERAL_WIDTH + 3]
b_ptr(row) == row[GENERAL_WIDTH + 4]
idx(row) == row[GENERAL_WIDTH + 5]
result(row) == [k \in 1 .. EXT_DEG |-> row[GENERAL_WIDTH + 5 + k]]
alpha(row) == [k \in 1 .. EXT_DEG |-> row[GENERAL_WIDTH + 5 + EXT_DEG + k]]
is_first(row) == row[GENERAL_WIDTH + 1]

GeneralCols(wl, ins, ts) == <<wl, ins, ts>>
DataCols(as, ap, bp, i, res, al) == <<as, ap, bp, i>> \o res \o al
PrefixCols(general, a_or_first, data) == general \o <<a_or_first>> \o data

\* The fold value stored on a workload row taken after the row's own
\* contribution instead of before it.
WorkloadCols_fold_after(record, log, hdr, i, res) ==
    LET n == Len(record.a_reads)
        a_read == record_by_id(log, record.a_reads[n - i])
        b_read == record_by_id(log, record.b_reads[n - i])
        a == a_read.data[1]
        b == [k \in 1 .. EXT_DEG |-> b_read.data[k]]
    IN  PrefixCols(
            GeneralCols(1, 0,
              (record.start_timestamp + from_canonical((hdr.length - i) * 2)) % P),
            a,
            DataCols(hdr.addr_space,
              (hdr.a_ptr + from_canonical(hdr.length - i)) % P,
              (hdr.b_ptr + from_canonical((hdr.length - i) * EXT_DEG)) % P,
              from_canonical(i),
              add(multiply(res, hdr.alpha), subtract(b, elem_to_ext(a))),
              hdr.alpha))
        \o make_read_aux_cols(log, record.a_reads[n - i])
        \o b
        \o make_read_aux_cols(log, record.b_reads[n - i])

\* Physical row i filled from the reads of iteration i, in execution order.
WorkloadCols_forward(record, log, hdr, i, res) ==
    LET a_read == record_by_id(log, record.a_reads[i + 1])
        b_read == record_by_id(log, record.b_reads[i + 1])
        a == a_read.data[1]
        b == [k \in 1 .. EXT_DEG |-> b_read.data[k]]
    IN  PrefixCols(
            GeneralCols(1, 0,
              (record.start_timestamp + from_canonical((hdr.length - i) * 2)) % P),
            a,
            DataCols(hdr.addr_space,
              (hdr.a_ptr + from_canonical(hdr.length - i)) % P,
              (hdr.b_ptr + from_canonical((hdr.length - i) * EXT_DEG)) % P,
              from_canonical(i), res, hdr.alpha))
        \o make_read_aux_cols(log, record.a_reads[i + 1])
        \o b
        \o make_read_aux_cols(log, record.b_reads[i + 1])

\* The WorkloadCols literal of record_to_rows for physical row i: the reads
\* taken in reverse order and the fold value before the row's contribution.
WorkloadCols(record, log, hdr, i, res) ==
    LET n == Len(record.a_reads)
        a_read == record_by_id(log, record.a_reads[n - i])
        b_read == record_by_id(log, record.b_reads[n - i])
        a == a_read.data[1]
        b == [k \in 1 .. EXT_DEG |-> b_read.data[k]]
    IN  PrefixCols(
            GeneralCols(1, 0,
              (record.start_timestamp + from_canonical((hdr.length - i) * 2)) % P),
            a,
            DataCols(hdr.addr_space,
              (hdr.a_ptr + from_canonical(hdr.length - i)) % P,
              (hdr.b_ptr + from_canonical((hdr.length - i) * EXT_DEG)) % P,
              from_canonical(i), res, hdr.alpha))
        \o make_read_aux_cols(log, record.a_reads[n - i])
        \o b
        \o make_read_aux_cols(log, record.b_reads[n - i])

\* The WorkloadCols loop of record_to_rows over the reads reversed: row i is
\* written, then result = result * alpha + (b - a).
RECURSIVE WorkloadRows(_, _, _, _, _, _)
WorkloadRows(slice, record, log, hdr, i, res) ==
    IF i >= Len(record.a_reads) THEN [slice |-> slice, result |-> res]
    ELSE LET n == Len(record.a_reads)
             a_read == record_by_id(log, record.a_reads[n - i])
             b_read == record_by_id(log, record.b_reads[n - i])
             a == a_read.data[1]
             b == [k \in 1 .. EXT_DEG |-> b_read.data[k]]
         IN  WorkloadRows([slice EXCEPT ![i + 1] =
                             Overlay(@, WorkloadCols(record, log, hdr, i, res))],
                          record, log, hdr, i + 1,
                          add(multiply(res, hdr.alpha), subtract(b, elem_to_ext(a))))

\* The first instruction row written with a zero fold.
Instruction1Cols_zero_fold(record, log, hdr, res) ==
    PrefixCols(GeneralCols(0, 1, record.start_timestamp), 1,
               DataCols(hdr.addr_space, hdr.a_ptr, hdr.b_ptr,
                        from_canonical(hdr.length), ExtZero, hdr.alpha))
    \o <<record.pc>>
    \o <<record.instruction.a>> \o make_read_aux_cols(log, record.a_ptr_read)
    \o <<record.instruction.b>> \o make_read_aux_cols(log, record.b_ptr_read)

\* The first instruction row written with is_first = 0.
Instruction1Cols_not_first(record, log, hdr, res) ==
    PrefixCols(GeneralCols(0, 1, record.start_timestamp), 0,
               DataCols(hdr.addr_space, hdr.a_ptr, hdr.b_ptr,
                        from_canonical(hdr.length), res, hdr.alpha))
    \o <<record.pc>>
    \o <<record.instruction.a>> \o make_read_aux_cols(log, record.a_ptr_read)
    \o <<record.instruction.b>> \o make_read_aux_cols(log, record.b_ptr_read)

\* The Instruction1Cols literal of record_to_rows.
Instruction1Cols(record, log, hdr, res) ==
    PrefixCols(GeneralCols(0, 1, record.start_timestamp), 1,
               DataCols(hdr.addr_space, hdr.a_ptr, hdr.b_ptr,
                        from_canonical(hdr.length), res, hdr.alpha))
    \o <<record.pc>>
    \o <<record.instruction.a>> \o make_read_aux_cols(log, record.a_ptr_read)
    \o <<record.instruction.b>> \o make_read_aux_cols(log, record.b_ptr_read)

\* The second instruction row flagged as a first one.
Instruction2Cols_first(record, log) ==
    GeneralCols(0, 1, record.start_timestamp)
    \o <<1>>
    \o <<record.instruction.c>> \o make_write_aux_cols(log, record.result_write)
    \o <<record.instruction.e>> \o make_read_aux_cols(log, record.length_read)
    \o <<record.instruction.f>> \o make_read_aux_cols(log, record.alpha_read)

\* The Instruction2Cols literal of record_to_rows.
Instruction2Cols(record, log) ==
    GeneralCols(0, 1, record.start_timestamp)
    \o <<0>>
    \o <<record.instruction.c>> \o make_write_aux_cols(log, record.result_write)
    \o <<record.instruction.e>> \o make_read_aux_cols(log, record.length_read)
    \o <<record.instruction.f>> \o make_read_aux_cols(log, record.alpha_read)

\* The values record_to_rows fetches before it writes any row: length,
\* alpha, a_ptr and b_ptr from the memory log, addr_space from the instruction.
RowHeader(record, log) ==
    LET length_read == record_by_id(log, record.length_read)
        alpha_read == record_by_id(log, record.alpha_read)
        a_ptr_read == record_by_id(log, record.a_ptr_read)
        b_ptr_read == record_by_id(log, record.b_ptr_read)
    IN  [length |-> length_read.data[1],
         alpha |-> [k \in 1 .. EXT_DEG |-> alpha_read.data[k]],
         a_ptr |-> a_ptr_read.data[1],
         b_ptr |-> b_ptr_read.data[1],
         addr_space |-> record.instruction.d]

\* record_to_rows: the rows of one record, written into its zeroed slice of
\* get_height(record) rows.
record_to_rows(record, log) ==
    LET hdr == RowHeader(record, log)
        zero == [k \in 1 .. get_height(record) |-> ZeroRow]
        wl == WorkloadRows(zero, record, log, hdr, 0, ExtZero)
        s1 == [wl.slice EXCEPT ![hdr.length + 1] =
                 Overlay(@, Instruction1Cols(record, log, hdr, wl.result))]
    IN  [s1 EXCEPT ![hdr.length + 2] = Overlay(@, Instruction2Cols(record, log))]

\* next_power_of_two_or_zero
RECURSIVE PowerOfTwoAtLeast(_, _)
PowerOfTwoAtLeast(n, p) == IF p >= n THEN p ELSE PowerOfTwoAtLeast(n, 2 * p)

next_power_of_two_or_zero(n) == IF n = 0 THEN 0 ELSE PowerOfTwoAtLeast(n, 1)

\* variable_chunks_mut followed by the per-record fill: the records' row
\* blocks one after another.
RECURSIVE RecordBlocks(_, _)
RecordBlocks(recs, log) ==
    IF recs = <<>> THEN <<>>
    ELSE record_to_rows(Head(recs), log) \o RecordBlocks(Tail(recs), log)

\* The matrix left at the unpadded height.
generate_unpadded(recs, h, log) ==
    LET blocks == RecordBlocks(recs, log)
    IN  [r \in 1 .. h |-> IF r <= Len(blocks) THEN blocks[r] ELSE ZeroRow]

\* The blocks put at the end of the padded matrix, the zero rows before them.
generate_air_proof_input_blocks_last(recs, h, log) ==
    LET padded == next_power_of_two_or_zero(h)
        blocks == RecordBlocks(recs, log)
        pad == padded - Len(blocks)
    IN  [r \in 1 .. padded |-> IF r > pad THEN blocks[r - pad] ELSE ZeroRow]

\* The blocks laid out from the last record to the first.
generate_air_proof_input_last_first(recs, h, log) ==
    LET padded == next_power_of_two_or_zero(h)
        blocks == RecordBlocks([k \in 1 .. Len(recs) |-> recs[Len(recs) + 1 - k]], log)
    IN  [r \in 1 .. padded |-> IF r <= Len(blocks) THEN blocks[r] ELSE ZeroRow]

\* generate_air_proof_input: a zeroed matrix of the padded height whose
\* leading rows are the records' blocks.
generate_air_proof_input(recs, h, log) ==
    LET padded == next_power_of_two_or_zero(h)
        blocks == RecordBlocks(recs, log)
    IN  [r \in 1 .. padded |-> IF r <= Len(blocks) THEN blocks[r] ELSE ZeroRow]

\* Each chunk starting on the last row of the chunk before it.
RECURSIVE variable_chunks_mut_overlap(_, _)
variable_chunks_mut_overlap(start, sizes) ==
    IF sizes = <<>> THEN <<>>
    ELSE <<[start |-> start, size |-> Head(sizes)]>>
         \o variable_chunks_mut_overlap(start + Head(sizes) - 1, Tail(sizes))

\* variable_chunks_mut on the rows from `start` on: split_at_mut(size) gives
\* the next chunk and the slice moves forward past it.  Sizes are in rows
\* (the code's sizes are OVERALL_WIDTH * get_height cells).
RECURSIVE variable_chunks_mut(_, _)
variable_chunks_mut(start, sizes) ==
    IF sizes = <<>> THEN <<>>
    ELSE <<[start |-> start, size |-> Head(sizes)]>>
         \o variable_chunks_mut(start + Head(sizes), Tail(sizes))

\* The row a worker writes as the i-th (from 0) of its record's slice, in
\* the order record_to_rows writes them, and the `result` it holds after.
worker_row(record, log, i, res) ==
    LET hdr == RowHeader(record, log)
        n == Len(record.a_reads)
    IN  IF i < n
        THEN LET a == record_by_id(log, record.a_reads[n - i]).data[1]
                 b == record_by_id(log, record.b_reads[n - i]).data
             IN  [at |-> i, cols |-> WorkloadCols(record, log, hdr, i, res),
                  result |-> add(multiply(res, hdr.alpha),
                                 subtract(b, elem_to_ext(a)))]
        ELSE IF i = n
        THEN [at |-> hdr.length, cols |-> Instruction1Cols(record, log, hdr, res),
              result |-> res]
        ELSE [at |-> hdr.length + 1, cols |-> Instruction2Cols(record, log),
              result |-> res]

\* ------------------------------------------------ the constraint evaluator
\* Remaining column accessors, by the #[repr(C)] struct layouts (1-based):
\* WorkloadCols, Instruction1Cols and Instruction2Cols after their prefix.
a_aux(row) == SubSeq(row, PREFIX_WIDTH + 1, PREFIX_WIDTH + READ_AUX_WIDTH)
b(row) ==
    SubSeq(row, PREFIX_WIDTH + READ_AUX_WIDTH + 1, PREFIX_WIDTH + READ_AUX_WIDTH + EXT_DEG)
b_aux(row) == SubSeq(row, PREFIX_WIDTH + READ_AUX_WIDTH + EXT_DEG + 1, WL_WIDTH)
pc(row) == row[PREFIX_WIDTH + 1]
a_ptr_ptr(row) == row[PREFIX_WIDTH + 2]
a_ptr_aux(row) == SubSeq(row, PREFIX_WIDTH + 3, PREFIX_WIDTH + 2 + READ_AUX_WIDTH)
b_ptr_ptr(row) == row[PREFIX_WIDTH + READ_AUX_WIDTH + 3]
b_ptr_aux(row) == SubSeq(row, PREFIX_WIDTH + READ_AUX_WIDTH + 4, INS_1_WIDTH)
result_ptr(row) == row[GENERAL_WIDTH + 2]
result_aux(row) == SubSeq(row, GENERAL_WIDTH + 3, GENERAL_WIDTH + 2 + WRITE_AUX_WIDTH)
length_ptr(row) == row[GENERAL_WIDTH + WRITE_AUX_WIDTH + 3]
length_aux(row) ==
    SubSeq(row, GENERAL_WIDTH + WRITE_AUX_WIDTH + 4,
           GENERAL_WIDTH + WRITE_AUX_WIDTH + 3 + READ_AUX_WIDTH)
alpha_ptr(row) == row[GENERAL_WIDTH + WRITE_AUX_WIDTH + READ_AUX_WIDTH + 4]
alpha_aux(row) == SubSeq(row, GENERAL_WIDTH + WRITE_AUX_WIDTH + READ_AUX_WIDTH + 5, INS_2_WIDTH)

\* The selectors of the builder on row r of n rows: when_first_row,
\* when_last_row, when_transition (every row but the last).
Selectors(r, n) == [first_row |-> r = 1, last_row |-> r = n, transition |-> r < n]

\* main.row_slice(1): the row after r; on the last row the window wraps to
\* the first row.
NextRow(rows, r) == rows[IF r = Len(rows) THEN 1 ELSE r + 1]

\* builder.assert_bool(x): x * (x - 1) = 0 in the field.
assert_bool(x) == x = 0 \/ x = 1

\* is_ins_row + is_workload_row of a row, in the field.
enabled(row) == (is_ins_row(row) + is_workload_row(row)) % P

\* eval_general: the tags are boolean and exclusive; a disabled row is
\* followed by a disabled row.
eval_general(local, next, sel) ==
    /\ assert_bool(is_ins_row(local))
    /\ assert_bool(is_workload_row(local))
    /\ assert_bool(enabled(local))
    /\ (sel.transition /\ enabled(local) # 1) => enabled(next) = 0

\* local.result * local.alpha + local.b - local.a
expected_result(local) ==
    subtract(add(multiply(result(local), alpha(local)), b(local)),
             elem_to_ext(a_or_is_first(local)))

\* The workload transition with the timestamp growing by 2 towards the next
\* row.
eval_workload_row_ascending(local, next, sel) ==
    /\ (sel.transition /\ is_workload_row(local) # 0) =>
          /\ timestamp(next) = (timestamp(local) + 2) % P
          /\ (idx(local) + 1) % P = idx(next)
          /\ alpha(local) = alpha(next)
          /\ addr_space(local) = addr_space(next)
          /\ a_ptr(local) = (a_ptr(next) + 1) % P
          /\ b_ptr(local) = (b_ptr(next) + EXT_DEG) % P
          /\ expected_result(local) = result(next)
    /\ (is_ins_row(next) # 0 /\ is_ins_row(local) # 1) => a_or_is_first(next) = 1
    /\ (sel.first_row /\ enabled(local) # 0) =>
          /\ is_workload_row(local) = 1
          /\ idx(local) = 0
          /\ result(local) = ExtZero

\* The workload transition and the first row, the boundary into the
\* instruction rows left unconstrained.
eval_workload_row_no_boundary(local, next, sel) ==
    /\ (sel.transition /\ is_workload_row(local) # 0) =>
          /\ timestamp(local) = (timestamp(next) + 2) % P
          /\ (idx(local) + 1) % P = idx(next)
          /\ alpha(local) = alpha(next)
          /\ addr_space(local) = addr_space(next)
          /\ a_ptr(local) = (a_ptr(next) + 1) % P
          /\ b_ptr(local) = (b_ptr(next) + EXT_DEG) % P
          /\ expected_result(local) = result(next)
    /\ (sel.first_row /\ enabled(local) # 0) =>
          /\ is_workload_row(local) = 1
          /\ idx(local) = 0
          /\ result(local) = ExtZero

\* The constraints of eval_workload_row: the workload transition, the
\* boundary into the instruction rows, the first row.
eval_workload_row(local, next, sel) ==
    /\ (sel.transition /\ is_workload_row(local) # 0) =>
          /\ timestamp(local) = (timestamp(next) + 2) % P
          /\ (idx(local) + 1) % P = idx(next)
          /\ alpha(local) = alpha(next)
          /\ addr_space(local) = addr_space(next)
          /\ a_ptr(local) = (a_ptr(next) + 1) % P
          /\ b_ptr(local) = (b_ptr(next) + EXT_DEG) % P
          /\ expected_result(local) = result(next)
    /\ (is_ins_row(next) # 0 /\ is_ins_row(local) # 1) => a_or_is_first(next) = 1
    /\ (sel.first_row /\ enabled(local) # 0) =>
          /\ is_workload_row(local) = 1
          /\ idx(local) = 0
          /\ result(local) = ExtZero

\* The constraints of eval_instruction1_row: a first instruction row is
\* followed by a second one.
eval_instruction1_row(local, next, sel) ==
    (is_ins_row(local) # 0 /\ a_or_is_first(local) # 0) =>
        /\ is_ins_row(next) = 1
        /\ is_first(next) = 0

\* Only the safeguard on the last row, the transition out of a second
\* instruction row left unconstrained.
eval_instruction2_row_last_only(local, next, sel) ==
    (sel.last_row /\ enabled(local) # 0) =>
        /\ is_ins_row(local) = 1
        /\ is_first(local) = 0

\* The row after a second instruction row only kept from being an
\* instruction row, its idx and fold left unconstrained.
eval_instruction2_row_tag_only(local, next, sel) ==
    /\ (sel.last_row /\ enabled(local) # 0) =>
          /\ is_ins_row(local) = 1
          /\ is_first(local) = 0
    /\ (sel.transition /\ is_ins_row(local) # 0 /\ is_first(local) # 1) =>
          is_ins_row(next) = 0

\* The constraints of eval_instruction2_row: an enabled last row is a second
\* instruction row; a second instruction row is followed by a row that is
\* not an instruction row and has idx 0 and a zero fold.
eval_instruction2_row(local, next, sel) ==
    /\ (sel.last_row /\ enabled(local) # 0) =>
          /\ is_ins_row(local) = 1
          /\ is_first(local) = 0
    /\ (sel.transition /\ is_ins_row(local) # 0 /\ is_first(local) # 1) =>
          /\ is_ins_row(next) = 0
          /\ idx(next) = 0
          /\ result(next) = ExtZero

\* The two instruction-row evaluators not called.
eval_general_and_workload_only(local, next, sel) ==
    /\ eval_general(local, next, sel)
    /\ eval_workload_row(local, next, sel)

\* Air::eval on one window.
eval(local, next, sel) ==
    /\ eval_general(local, next, sel)
    /\ eval_workload_row(local, next, sel)
    /\ eval_instruction1_row(local, next, sel)
    /\ eval_instruction2_row(local, next, sel)

\* The constraints hold on every window of the row sequence.
AirAccepts(rows) ==
    \A r \in 1 .. Len(rows) : eval(rows[r], NextRow(rows, r), Selectors(r, Len(rows)))

\* ------------------------------------------------------- bus interactions
FRI_REDUCED_OPENING == "FRI_REDUCED_OPENING"

\* MemoryBridge::read / write followed by .eval(builder, multiplicity).
memory_bridge(kind, as, ptr, data, ts, aux, multiplicity) ==
    [bus |-> "memory", kind |-> kind, address_space |-> as, pointer |-> ptr,
     data |-> data, timestamp |-> ts, aux |-> aux, multiplicity |-> multiplicity]

\* ExecutionBridge::execute followed by .eval(builder, multiplicity).
execution_bridge(opcode, operands, from_state, to_state, multiplicity) ==
    [bus |-> "execution", opcode |-> opcode, operands |-> operands,
     from_state |-> from_state, to_state |-> to_state,
     multiplicity |-> multiplicity]

\* The reads of a and b dated from the local row's own timestamp.
workload_interactions_local_timestamp(local, next) ==
    LET start_timestamp == timestamp(local)
        multiplicity == is_workload_row(local)
        ptr_reads == 4
    IN  <<memory_bridge("read", addr_space(local), a_ptr(next),
                        <<a_or_is_first(local)>>,
                        (start_timestamp + ptr_reads) % P, a_aux(local), multiplicity),
          memory_bridge("read", addr_space(local), b_ptr(next), b(local),
                        (start_timestamp + ptr_reads + 1) % P, b_aux(local),
                        multiplicity)>>

\* The interactions of eval_workload_row: the reads of a and b at the next
\* row's pointers, dated from the next row's timestamp.
workload_interactions(local, next) ==
    LET start_timestamp == timestamp(next)
        multiplicity == is_workload_row(local)
        ptr_reads == 4
    IN  <<memory_bridge("read", addr_space(local), a_ptr(next),
                        <<a_or_is_first(local)>>,
                        (start_timestamp + ptr_reads) % P, a_aux(local), multiplicity),
          memory_bridge("read", addr_space(local), b_ptr(next), b(local),
                        (start_timestamp + ptr_reads + 1) % P, b_aux(local),
                        multiplicity)>>

\* The to-state dated at the write, the tick of the write left out.
instruction1_execute_ends_at_write(local, next) ==
    LET length == idx(local)
        multiplicity == (is_ins_row(local) * a_or_is_first(local)) % P
        start_timestamp == timestamp(local)
        write_timestamp == (start_timestamp + 2 * length + 4) % P
    IN  execution_bridge(FRI_REDUCED_OPENING,
                         <<a_ptr_ptr(local), b_ptr_ptr(local), result_ptr(next),
                           addr_space(local), length_ptr(next), alpha_ptr(next)>>,
                         [pc |-> pc(local), timestamp |-> timestamp(local)],
                         [pc |-> (DEFAULT_PC_STEP + pc(local)) % P,
                          timestamp |-> write_timestamp],
                         multiplicity)

\* The execution-bus interaction of eval_instruction1_row.
instruction1_execute(local, next) ==
    LET length == idx(local)
        multiplicity == (is_ins_row(local) * a_or_is_first(local)) % P
        start_timestamp == timestamp(local)
        write_timestamp == (start_timestamp + 2 * length + 4) % P
        end_timestamp == (write_timestamp + 1) % P
    IN  execution_bridge(FRI_REDUCED_OPENING,
                         <<a_ptr_ptr(local), b_ptr_ptr(local), result_ptr(next),
                           addr_space(local), length_ptr(next), alpha_ptr(next)>>,
                         [pc |-> pc(local), timestamp |-> timestamp(local)],
                         [pc |-> (DEFAULT_PC_STEP + pc(local)) % P,
                          timestamp |-> end_timestamp],
                         multiplicity)

\* The interactions gated by the first flag alone, the instruction tag left
\* out of the multiplicity.
instruction1_memory_first_flag_only(local, next) ==
    LET length == idx(local)
        multiplicity == a_or_is_first(local)
        start_timestamp == timestamp(local)
        write_timestamp == (start_timestamp + 2 * length + 4) % P
    IN  <<memory_bridge("read", addr_space(local), alpha_ptr(next), alpha(local),
                        start_timestamp, alpha_aux(next), multiplicity),
          memory_bridge("read", addr_space(local), length_ptr(next), <<length>>,
                        (start_timestamp + 1) % P, length_aux(next), multiplicity),
          memory_bridge("read", addr_space(local), a_ptr_ptr(local), <<a_ptr(local)>>,
                        (start_timestamp + 2) % P, a_ptr_aux(local), multiplicity),
          memory_bridge("read", addr_space(local), b_ptr_ptr(local), <<b_ptr(local)>>,
                        (start_timestamp + 3) % P, b_ptr_aux(local), multiplicity),
          memory_bridge("write", addr_space(local), result_ptr(next), result(local),
                        write_timestamp, result_aux(next), multiplicity)>>

\* The write dated one iteration early, at start + 2 * length + 2.
instruction1_memory_early_write(local, next) ==
    LET length == idx(local)
        multiplicity == (is_ins_row(local) * a_or_is_first(local)) % P
        start_timestamp == timestamp(local)
        write_timestamp == (start_timestamp + 2 * length + 2) % P
    IN  <<memory_bridge("read", addr_space(local), alpha_ptr(next), alpha(local),
                        start_timestamp, alpha_aux(next), multiplicity),
          memory_bridge("read", addr_space(local), length_ptr(next), <<length>>,
                        (start_timestamp + 1) % P, length_aux(next), multiplicity),
          memory_bridge("read", addr_space(local), a_ptr_ptr(local), <<a_ptr(local)>>,
                        (start_timestamp + 2) % P, a_ptr_aux(local), multiplicity),
          memory_bridge("read", addr_space(local), b_ptr_ptr(local), <<b_ptr(local)>>,
                        (start_timestamp + 3) % P, b_ptr_aux(local), multiplicity),
          memory_bridge("write", addr_space(local), result_ptr(next), result(local),
                        write_timestamp, result_aux(next), multiplicity)>>

\* The memory-bus interactions of eval_instruction1_row: the reads of alpha,
\* length, a_ptr and b_ptr, then the write of the result.
instruction1_memory(local, next) ==
    LET length == idx(local)
        multiplicity == (is_ins_row(local) * a_or_is_first(local)) % P
        start_timestamp == timestamp(local)
        write_timestamp == (start_timestamp + 2 * length + 4) % P
    IN  <<memory_bridge("read", addr_space(local), alpha_ptr(next), alpha(local),
                        start_timestamp, alpha_aux(next), multiplicity),
          memory_bridge("read", addr_space(local), length_ptr(next), <<length>>,
                        (start_timestamp + 1) % P, length_aux(next), multiplicity),
          memory_bridge("read", addr_space(local), a_ptr_ptr(local), <<a_ptr(local)>>,
                        (start_timestamp + 2) % P, a_ptr_aux(local), multiplicity),
          memory_bridge("read", addr_space(local), b_ptr_ptr(local), <<b_ptr(local)>>,
                        (start_timestamp + 3) % P, b_ptr_aux(local), multiplicity),
          memory_bridge("write", addr_space(local), result_ptr(next), result(local),
                        write_timestamp, result_aux(next), multiplicity)>>

\* ------------------------------------------------- the generic chip wrapper
VARIABLES
    wrecords,   \* VmChipWrapper::records
    wvm,        \* the ExecutionState the next wrapper instruction starts from
    wphase,     \* "run", "failed" (an instruction returned Err) or "done"
                \* (generate_trace consumed the wrapper)
    wn,         \* number of execute calls made on the wrapper so far
    wlast,      \* the last wrapper call: its arguments, the adapter and core
                \* calls it made, and what it returned
    wtrace      \* the RowMajorMatrix generate_trace returned: values, width

wvars == <<wrecords, wvm, wphase, wn, wlast, wtrace>>

\* ------------------------------------------- adapter interface conversions
VARIABLES
    cv,         \* the context (or array) held: its type parameters and value
    chist,      \* the contexts held before each conversion made so far
    clast       \* the last conversion: its name, target parameters, outcome

cvars == <<cv, chist, clast>>

\* ----------------------------------------- parallel FRI trace generation
VARIABLES
    pbuf,       \* flat_trace, as rows of OVERALL_WIDTH cells
    pchunks,    \* chunked_trace: the row range each record's worker owns
    ppos,       \* per worker: the number of rows of its slice written so far
    pres,       \* per worker: the local `result` of its record_to_rows call
    pwrites,    \* the (worker, row of the buffer) pairs written so far
    pmixed,     \* a worker wrote while a worker of an earlier record had not
                \* finished
    pphase      \* "idle", "fill" (workers running) or "done"

pvars == <<pbuf, pchunks, ppos, pres, pwrites, pmixed, pphase>>

\* ------------------------------------------- row sequences given to the AIR
VARIABLES
    arows       \* a row sequence handed to the constraint evaluator

avars == <<arows>>

\* The variables each component leaves alone.
nonchipvars == <<wvars, cvars, pvars, avars>>
nonwrappervars == <<chipvars, cvars, pvars, avars>>
nonconvvars == <<chipvars, wvars, pvars, avars>>
nonparvars == <<wvars, cvars, avars>>
nonairvars == <<chipvars, wvars, cvars, pvars>>

Err(e) == [ok |-> FALSE, err |-> e]

\* VmAdapterChip::preprocess of the adapter: the reads and the read record,
\* or the error of a rejected read.
preprocess(env, instruction) ==
    IF env.fail_at = "preprocess" THEN Err("preprocess")
    ELSE [ok |-> TRUE, reads |-> env.reads,
          read_record |-> <<"read", instruction.opcode, env.reads>>]

\* VmCoreChip::execute_instruction of the core: the writes it decides on from
\* the reads it is given, an optional next pc, and its record.
execute_instruction(env, instruction, from_pc, reads) ==
    IF env.fail_at = "execute_instruction" THEN Err("execute_instruction")
    ELSE [ok |-> TRUE,
          output |-> [to_pc |-> env.to_pc, writes |-> reads + instruction.opcode],
          record |-> <<"core", instruction.opcode, from_pc, reads>>]

\* VmAdapterChip::postprocess of the adapter: the end state and the write
\* record, or the error of a rejected write.
postprocess(env, instruction, from_state, output, read_record) ==
    IF env.fail_at = "postprocess" THEN Err("postprocess")
    ELSE [ok |-> TRUE,
          to_state |-> [pc |-> IF output.to_pc = <<>>
                               THEN from_state.pc + DEFAULT_PC_STEP
                               ELSE output.to_pc[1],
                        timestamp |-> from_state.timestamp + 2],
          write_record |-> <<"write", output.writes, read_record[3]>>]

\* The state the call was given returned in place of the one postprocess
\* produced.
wrapper_execute_returns_from_state(env, recs, instruction, from_state) ==
    LET pre == preprocess(env, instruction)
        c1 == <<[fn |-> "preprocess", instruction |-> instruction, ret |-> pre]>>
    IN  IF ~pre.ok THEN [result |-> Err(pre.err), records |-> recs, calls |-> c1]
        ELSE
        LET core == execute_instruction(env, instruction, from_state.pc, pre.reads)
            c2 == Append(c1, [fn |-> "execute_instruction", instruction |-> instruction,
                              from_pc |-> from_state.pc, reads |-> pre.reads,
                              ret |-> core])
        IN  IF ~core.ok THEN [result |-> Err(core.err), records |-> recs, calls |-> c2]
            ELSE
            LET post == postprocess(env, instruction, from_state, core.output,
                                    pre.read_record)
                c3 == Append(c2, [fn |-> "postprocess", instruction |-> instruction,
                                  from_state |-> from_state, output |-> core.output,
                                  read_record |-> pre.read_record, ret |-> post])
            IN  IF ~post.ok
                THEN [result |-> Err(post.err), records |-> recs, calls |-> c3]
                ELSE [result |-> [ok |-> TRUE, state |-> from_state],
                      records |-> Append(recs, <<pre.read_record, post.write_record,
                                                 core.record>>),
                      calls |-> c3]

\* The record pushed before the result of postprocess is looked at.
wrapper_execute_push_early(env, recs, instruction, from_state) ==
    LET pre == preprocess(env, instruction)
        c1 == <<[fn |-> "preprocess", instruction |-> instruction, ret |-> pre]>>
    IN  IF ~pre.ok THEN [result |-> Err(pre.err), records |-> recs, calls |-> c1]
        ELSE
        LET core == execute_instruction(env, instruction, from_state.pc, pre.reads)
            c2 == Append(c1, [fn |-> "execute_instruction", instruction |-> instruction,
                              from_pc |-> from_state.pc, reads |-> pre.reads,
                              ret |-> core])
        IN  IF ~core.ok THEN [result |-> Err(core.err), records |-> recs, calls |-> c2]
            ELSE
            LET post == postprocess(env, instruction, from_state, core.output,
                                    pre.read_record)
                c3 == Append(c2, [fn |-> "postprocess", instruction |-> instruction,
                                  from_state |-> from_state, output |-> core.output,
                                  read_record |-> pre.read_record, ret |-> post])
            IN  IF ~post.ok
                THEN [result |-> Err(post.err),
                      records |-> Append(recs, <<pre.read_record, <<>>, core.record>>),
                      calls |-> c3]
                ELSE [result |-> [ok |-> TRUE, state |-> post.to_state],
                      records |-> Append(recs, <<pre.read_record, post.write_record,
                                                 core.record>>),
                      calls |-> c3]

\* VmChipWrapper::execute: preprocess, execute_instruction, postprocess, each
\* followed by `?`, then the push of the record triple and Ok(to_state).
\* `calls` lists the adapter and core calls made, with their arguments and
\* results.
wrapper_execute(env, recs, instruction, from_state) ==
    LET pre == preprocess(env, instruction)
        c1 == <<[fn |-> "preprocess", instruction |-> instruction, ret |-> pre]>>
    IN  IF ~pre.ok THEN [result |-> Err(pre.err), records |-> recs, calls |-> c1]
        ELSE
        LET core == execute_instruction(env, instruction, from_state.pc, pre.reads)
            c2 == Append(c1, [fn |-> "execute_instruction", instruction |-> instruction,
                              from_pc |-> from_state.pc, reads |-> pre.reads,
                              ret |-> core])
        IN  IF ~core.ok THEN [result |-> Err(core.err), records |-> recs, calls |-> c2]
            ELSE
            LET post == postprocess(env, instruction, from_state, core.output,
                                    pre.read_record)
                c3 == Append(c2, [fn |-> "postprocess", instruction |-> instruction,
                                  from_state |-> from_state, output |-> core.output,
                                  read_record |-> pre.read_record, ret |-> post])
            IN  IF ~post.ok
                THEN [result |-> Err(post.err), records |-> recs, calls |-> c3]
                ELSE [result |-> [ok |-> TRUE, state |-> post.to_state],
                      records |-> Append(recs, <<pre.read_record, post.write_record,
                                                 core.record>>),
                      calls |-> c3]

\* VmAdapterChip::generate_trace_row of the adapter: its columns hold the
\* data it read and the data it wrote; the others keep what the slice held.
adapter_generate_trace_row(row_slice, read_record, write_record) ==
    [j \in 1 .. Len(row_slice) |->
       IF j = 1 THEN read_record[3]
       ELSE IF j = 2 THEN write_record[2]
       ELSE row_slice[j]]

\* VmCoreChip::generate_trace_row of the core: its columns hold the opcode,
\* the pc it started from and the reads it was given.
core_generate_trace_row(row_slice, record) ==
    [j \in 1 .. Len(row_slice) |->
       IF j = 1 THEN record[2]
       ELSE IF j = 2 THEN record[3]
       ELSE IF j = 3 THEN record[4]
       ELSE row_slice[j]]

\* The row split with the core's columns first.
fill_row_core_first(row_slice, record) ==
    core_generate_trace_row(SubSeq(row_slice, 1, CoreWidth), record[3])
    \o adapter_generate_trace_row(SubSeq(row_slice, CoreWidth + 1, Len(row_slice)),
                                  record[1], record[2])

\* The closure of generate_trace: split_at_mut(adapter_width), the adapter
\* fills the left part from the read and write records, the core the right
\* part from its record.
fill_row(row_slice, record) ==
    adapter_generate_trace_row(SubSeq(row_slice, 1, AdapterWidth),
                               record[1], record[2])
    \o core_generate_trace_row(SubSeq(row_slice, AdapterWidth + 1, Len(row_slice)),
                               record[3])

\* VmChipWrapper::trace_width
trace_width == AdapterWidth + CoreWidth

\* VmChipWrapper::current_trace_height
current_trace_height(recs) == Len(recs)

\* VmChipWrapper::generate_trace: a zeroed vector of height * width cells;
\* par_chunks_mut(width) zipped with the records, so only the first
\* records.len() chunks are filled.
wrapper_generate_trace(recs) ==
    LET h == next_power_of_two_or_zero(Len(recs))
        core_width == CoreWidth
        adapter_width == AdapterWidth
        width == core_width + adapter_width
        zeros == [c \in 1 .. width |-> 0]
        chunk(k) == IF k <= Len(recs) THEN fill_row(zeros, recs[k]) ELSE zeros
    IN  [values |-> [c \in 1 .. (h * width) |->
                       chunk(((c - 1) \div width) + 1)[((c - 1) % width) + 1]],
         width |-> width]

\* VmCoreAir::eval of the core: from its own columns (opcode, pc, reads) it
\* builds the AdapterAirContext it hands on; the adapter's columns are given
\* to it as well.
core_eval(local_core, local_adapter) ==
    [to_pc |-> <<>>,
     reads |-> local_core[3],
     writes |-> local_core[3] + local_core[1],
     instruction |-> [opcode |-> local_core[1], from_pc |-> local_core[2]]]

\* VmAdapterAir::eval of the adapter: the assertions it emits from its own
\* columns and the context it is given.
adapter_eval(local, ctx) ==
    <<[bus |-> "memory", op |-> "read", data |-> local[1], expected |-> ctx.reads],
      [bus |-> "memory", op |-> "write", data |-> local[2], expected |-> ctx.writes],
      [bus |-> "execution", from_pc |-> ctx.instruction.from_pc, to_pc |-> ctx.to_pc]>>

\* The row split with the core's columns first.
wrapper_eval_core_columns_first(local) ==
    LET local_core == SubSeq(local, 1, CoreWidth)
        local_adapter == SubSeq(local, CoreWidth + 1, Len(local))
        ctx == core_eval(local_core, local_adapter)
        c1 == <<[fn |-> "core.eval", local_core |-> local_core,
                 local_adapter |-> local_adapter, ret |-> ctx]>>
    IN  [calls |-> Append(c1, [fn |-> "adapter.eval", local |-> local_adapter,
                               ctx |-> ctx,
                               ret |-> adapter_eval(local_adapter, ctx)])]

\* Air::eval of VmAirWrapper: split_at(adapter.width()) of the local row, the
\* core's eval first, then the adapter's eval with the context the core
\* returned. `calls` lists the two calls with their arguments and results.
wrapper_eval(local) ==
    LET local_adapter == SubSeq(local, 1, AdapterWidth)
        local_core == SubSeq(local, AdapterWidth + 1, Len(local))
        ctx == core_eval(local_core, local_adapter)
        c1 == <<[fn |-> "core.eval", local_core |-> local_core,
                 local_adapter |-> local_adapter, ret |-> ctx]>>
    IN  [calls |-> Append(c1, [fn |-> "adapter.eval", local |-> local_adapter,
                               ctx |-> ctx,
                               ret |-> adapter_eval(local_adapter, ctx)])]

\* What the adapter and the core do in one call: the step that fails (if
\* any), the data the adapter reads, the next pc the core asks for.
Envs ==
    [fail_at : {"none", "preprocess", "execute_instruction", "postprocess"},
     reads : {10, 20},
     to_pc : {<<>>, <<64>>}]

WrapperInstructions == {[opcode |-> 1], [opcode |-> 2]}

\* ------------------------------------------- adapter interface conversions
\* A conversion that hit a failed assert_eq! or an unwrap of None.
Panic == [ok |-> FALSE]

\* into_iter().flatten(): the elements of the batches, batch after batch.
RECURSIVE flatten(_)
flatten(batches) ==
    IF batches = <<>> THEN <<>> ELSE Head(batches) \o flatten(Tail(batches))

\* it.next() returns None before n elements were taken.
Exhausted(it, n) == Len(it) < n

\* from_fn(|_| it.next().unwrap()) for [T; n]: the first n elements of it.
from_fn_cells(it, n) == [k \in 1 .. n |-> it[k]]

\* The batches filled column by column.
from_fn_batches_by_column(it, size, num) ==
    [i \in 1 .. num |-> [j \in 1 .. size |-> it[(j - 1) * num + i]]]

\* from_fn(|_| from_fn(|_| it.next().unwrap())) for [[T; size]; num]: batch i
\* takes the next `size` elements.
from_fn_batches(it, size, num) ==
    [i \in 1 .. num |-> [j \in 1 .. size |-> it[(i - 1) * size + j]]]

\* The conversion without its assert on READ_CELLS.
AirBasicToFlat_no_read_assert(ctx, NUM_READS, NUM_WRITES, READ_SIZE, WRITE_SIZE, READ_CELLS, WRITE_CELLS) ==
    IF WRITE_CELLS # NUM_WRITES * WRITE_SIZE THEN Panic
    ELSE LET reads_it == flatten(ctx.reads)
             writes_it == flatten(ctx.writes)
         IN  IF Exhausted(reads_it, READ_CELLS) \/ Exhausted(writes_it, WRITE_CELLS)
             THEN Panic
             ELSE [ok |-> TRUE,
                   ctx |-> [to_pc |-> ctx.to_pc,
                            reads |-> from_fn_cells(reads_it, READ_CELLS),
                            writes |-> from_fn_cells(writes_it, WRITE_CELLS),
                            instruction |-> ctx.instruction]]

\* From<AdapterAirContext<Basic>> for AdapterAirContext<Flat>
AirBasicToFlat(ctx, NUM_READS, NUM_WRITES, READ_SIZE, WRITE_SIZE, READ_CELLS, WRITE_CELLS) ==
    IF READ_CELLS # NUM_READS * READ_SIZE THEN Panic
    ELSE IF WRITE_CELLS # NUM_WRITES * WRITE_SIZE THEN Panic
    ELSE LET reads_it == flatten(ctx.reads)
             writes_it == flatten(ctx.writes)
         IN  IF Exhausted(reads_it, READ_CELLS) \/ Exhausted(writes_it, WRITE_CELLS)
             THEN Panic
             ELSE [ok |-> TRUE,
                   ctx |-> [to_pc |-> ctx.to_pc,
                            reads |-> from_fn_cells(reads_it, READ_CELLS),
                            writes |-> from_fn_cells(writes_it, WRITE_CELLS),
                            instruction |-> ctx.instruction]]

\* From<AdapterAirContext<Flat>> for AdapterAirContext<Basic>
AirFlatToBasic(ctx, NUM_READS, NUM_WRITES, READ_SIZE, WRITE_SIZE, READ_CELLS, WRITE_CELLS) ==
    IF READ_CELLS # NUM_READS * READ_SIZE THEN Panic
    ELSE IF WRITE_CELLS # NUM_WRITES * WRITE_SIZE THEN Panic
    ELSE IF Exhausted(ctx.reads, NUM_READS * READ_SIZE)
            \/ Exhausted(ctx.writes, NUM_WRITES * WRITE_SIZE)
    THEN Panic
    ELSE [ok |-> TRUE,
          ctx |-> [to_pc |-> ctx.to_pc,
                   reads |-> from_fn_batches(ctx.reads, READ_SIZE, NUM_READS),
                   writes |-> from_fn_batches(ctx.writes, WRITE_SIZE, NUM_WRITES),
                   instruction |-> ctx.instruction]]

\* From<AdapterRuntimeContext<Basic>> for AdapterRuntimeContext<Flat>: only
\* the write sizes are asserted.
RuntimeBasicToFlat(ctx, NUM_READS, NUM_WRITES, READ_SIZE, WRITE_SIZE, READ_CELLS, WRITE_CELLS) ==
    IF WRITE_CELLS # NUM_WRITES * WRITE_SIZE THEN Panic
    ELSE LET writes_it == flatten(ctx.writes)
         IN  IF Exhausted(writes_it, WRITE_CELLS) THEN Panic
             ELSE [ok |-> TRUE,
                   ctx |-> [to_pc |-> ctx.to_pc,
                            writes |-> from_fn_cells(writes_it, WRITE_CELLS)]]

\* From<AdapterRuntimeContext<Flat>> for AdapterRuntimeContext<Basic>: only
\* the write sizes are asserted.
RuntimeFlatToBasic(ctx, NUM_READS, NUM_WRITES, READ_SIZE, WRITE_SIZE, READ_CELLS, WRITE_CELLS) ==
    IF WRITE_CELLS # NUM_WRITES * WRITE_SIZE THEN Panic
    ELSE IF Exhausted(ctx.writes, NUM_WRITES * WRITE_SIZE) THEN Panic
    ELSE [ok |-> TRUE,
          ctx |-> [to_pc |-> ctx.to_pc,
                   writes |-> from_fn_batches(ctx.writes, WRITE_SIZE, NUM_WRITES)]]

\* From<[[T; N]; M]> for DynArray<T>
ArrayToDyn(v) == flatten(v)

\* From<DynArray<T>> for [[T; N]; M]
DynToArray(v, N, M) ==
    IF Len(v) # N * M THEN Panic
    ELSE [ok |-> TRUE, ctx |-> from_fn_batches(v, N, M)]

\* ------------------------------------------------------------ FRI chip run
\* Values the initial memory is drawn from.
\* (a[i], b[i]) pairs.
ABVals == {<<2, <<0, 5, 0, 2>>>>, <<P - 1, <<1, 0, 3, P - 1>>>>}
AlphaVals == {ExtZero, <<3, 1, 0, 2>>}

\* Address space 1 holds one laid-out problem; address space 2 is all zero.
InitCells(al, len, ab) ==
    [as \in AddrSpaces |->
       [q \in Ptrs |->
          IF as # 1 THEN 0
          ELSE IF q < LengthPtr THEN al[q - AlphaPtr + 1]
          ELSE IF q = LengthPtr THEN len
          ELSE IF q = APtrPtr THEN ABase
          ELSE IF q = BPtrPtr THEN BBase
          ELSE IF q < BBase THEN ab[q - ABase + 1][1]
          ELSE IF q < ResPtr
               THEN ab[((q - BBase) \div EXT_DEG) + 1][2][((q - BBase) % EXT_DEG) + 1]
          ELSE 0]]

\* The instructions issued: the laid-out operands, the result written to the
\* result area or over alpha, and pointers the memory rejects.
Instructions ==
    {[a |-> APtrPtr, b |-> BPtrPtr, c |-> ResPtr, d |-> d, e |-> LengthPtr, f |-> AlphaPtr] :
        d \in AddrSpaces}
    \cup {[a |-> APtrPtr, b |-> BPtrPtr, c |-> AlphaPtr, d |-> 1,
           e |-> LengthPtr, f |-> AlphaPtr],
          [a |-> APtrPtr, b |-> BPtrPtr, c |-> MemSize - 2, d |-> 1,
           e |-> LengthPtr, f |-> AlphaPtr],
          [a |-> APtrPtr, b |-> BPtrPtr, c |-> ResPtr, d |-> 1,
           e |-> LengthPtr, f |-> MemSize - 1]}

WrapperInit ==
    /\ wrecords = <<>>
    /\ wvm = [pc |-> 0, timestamp |-> 1]
    /\ wphase = "run"
    /\ wn = 0
    /\ wlast = [op |-> "none"]
    /\ wtrace = [values |-> <<>>, width |-> 0]

\* No conversion made: an empty fixed array is held.
ConvIdle ==
    /\ cv = [kind |-> "array", shape |-> "fixed", params |-> <<0, 0>>, ctx |-> <<>>]
    /\ chist = <<>>
    /\ clast = [fn |-> "none", basic |-> <<>>, flat |-> <<>>, ok |-> TRUE]

\* No trace generation by workers under way.
AirIdle == arows = <<>>

ParIdle ==
    /\ AirIdle
    /\ pbuf = <<>>
    /\ pchunks = <<>>
    /\ ppos = <<>>
    /\ pres = <<>>
    /\ pwrites = {}
    /\ pmixed = FALSE
    /\ pphase = "idle"

ChipInit(al, len, ab) ==
    /\ mem = [ok |-> TRUE, cells |-> InitCells(al, len, ab), log |-> <<>>, ts |-> 1]
    /\ records = <<>>
    /\ height = 0
    /\ vm = [pc |-> 0, timestamp |-> 1]
    /\ trace = <<>>
    /\ saved = <<>>
    /\ savedFrom = [records |-> <<>>, height |-> 0]
    /\ phase = "run"
    /\ nexec = 0
    /\ last = [op |-> "none"]

Init ==
    /\ \E al \in AlphaVals, len \in 0 .. MaxLen, ab \in [1 .. MaxLen -> ABVals] :
          /\ \A k \in 1 .. MaxLen : k > len => ab[k][1] = 2
          /\ ChipInit(al, len, ab)
    /\ WrapperInit
    /\ ConvIdle
    /\ ParIdle

\* One call of InstructionExecutor::execute, from the state the previous
\* instruction returned.
Execute(instruction) ==
    /\ phase = "run"
    /\ nexec < MaxInstr
    /\ LET r == execute(mem, records, height, instruction, vm)
       IN  /\ mem' = r.mem
           /\ records' = r.records
           /\ height' = r.height
           /\ vm' = r.to_state
           /\ phase' = IF r.outcome = "Ok" THEN "run" ELSE "aborted"
           /\ last' = [op |-> "execute", outcome |-> r.outcome,
                       instruction |-> instruction, from_state |-> vm,
                       to_state |-> r.to_state,
                       cells |-> mem.cells, nlog |-> Len(mem.log),
                       records |-> records, height |-> height]
    /\ nexec' = nexec + 1
    /\ UNCHANGED <<trace, saved, savedFrom, nonchipvars>>

\* Stateful::store_state
StoreState ==
    /\ phase = "run"
    /\ saved' = store_state(records)
    /\ savedFrom' = [records |-> records, height |-> height]
    /\ last' = [op |-> "store_state"]
    /\ UNCHANGED <<mem, records, height, vm, trace, phase, nexec, nonchipvars>>

\* Stateful::load_state, given bytes an earlier store_state returned.
LoadState ==
    /\ phase = "run"
    /\ saved # <<>>
    /\ LET r == load_state(saved)
       IN  /\ records' = r.records
           /\ height' = r.height
    /\ last' = [op |-> "load_state"]
    /\ UNCHANGED <<mem, vm, trace, saved, savedFrom, phase, nexec, nonchipvars>>

\* Chip::generate_air_proof_input, which consumes the chip.
GenerateTrace ==
    /\ phase = "run"
    /\ trace' = generate_air_proof_input(records, height, mem.log)
    /\ phase' = "done"
    /\ last' = [op |-> "generate_air_proof_input"]
    /\ UNCHANGED <<mem, records, height, vm, saved, savedFrom, nexec, nonchipvars>>

Next ==
    \/ \E instruction \in Instructions : Execute(instruction)
    \/ StoreState
    \/ LoadState
    \/ GenerateTrace

vars == <<chipvars, wvars, cvars, pvars, avars>>

Spec == Init /\ [][Next]_vars

\* ---------------------------------------------------- generic wrapper run
\* One call of VmChipWrapper::execute; an Err ends the run.
WrapperExecute(instruction, env) ==
    /\ wphase = "run"
    /\ wn < MaxWrapperInstr
    /\ LET r == wrapper_execute(env, wrecords, instruction, wvm)
       IN  /\ wrecords' = r.records
           /\ wvm' = IF r.result.ok THEN r.result.state ELSE wvm
           /\ wphase' = IF r.result.ok THEN "run" ELSE "failed"
           /\ wlast' = [op |-> "execute", instruction |-> instruction,
                        from_state |-> wvm, records |-> wrecords,
                        calls |-> r.calls, result |-> r.result]
    /\ wn' = wn + 1
    /\ UNCHANGED <<wtrace, nonwrappervars>>

\* VmChip::generate_trace, which consumes the wrapper.
WrapperGenerateTrace ==
    /\ wphase \in {"run", "failed"}
    /\ wtrace' = wrapper_generate_trace(wrecords)
    /\ wphase' = "done"
    /\ wlast' = [op |-> "generate_trace",
                 current_trace_height |-> current_trace_height(wrecords),
                 trace_width |-> trace_width]
    /\ UNCHANGED <<wrecords, wvm, wn, nonwrappervars>>

\* Air::eval of the wrapper's AIR on row k (from 1) of the matrix
\* generate_trace returned.
WrapperEval(k) ==
    /\ wphase = "done"
    /\ k \in 1 .. (Len(wtrace.values) \div trace_width)
    /\ LET local == [j \in 1 .. wtrace.width |->
                       wtrace.values[(k - 1) * wtrace.width + j]]
       IN  wlast' = [op |-> "eval", row |-> k, local |-> local,
                     calls |-> wrapper_eval(local).calls]
    /\ UNCHANGED <<wrecords, wvm, wphase, wn, wtrace, nonwrappervars>>

WrapperNext ==
    \/ \E instruction \in WrapperInstructions, env \in Envs :
          WrapperExecute(instruction, env)
    \/ WrapperGenerateTrace
    \/ \E k \in 1 .. next_power_of_two_or_zero(MaxWrapperInstr) : WrapperEval(k)

\* The wrapper beside an untouched FRI chip.
WrapperRunInit ==
    /\ ChipInit(ExtZero, 0, [k \in 1 .. MaxLen |-> <<2, <<0, 5, 0, 2>>>>])
    /\ WrapperInit
    /\ ConvIdle
    /\ ParIdle

WrapperSpec == WrapperRunInit /\ [][WrapperNext]_vars

\* ------------------------------------------------ interface conversion run
Batches == 1 .. MaxBatches
BatchSizes == 1 .. MaxBatchSize
Cells == 1 .. (MaxBatches * MaxBatchSize)

\* num batches of `size` elements, each element naming its batch and place.
BatchArray(num, size, base) ==
    [i \in 1 .. num |-> [j \in 1 .. size |-> base + (MaxBatchSize + 1) * i + j]]

WritesBase == (MaxBatches + 1) * (MaxBatchSize + 1)

BasicAirCtx(params, to_pc) ==
    [to_pc |-> to_pc,
     reads |-> BatchArray(params[1], params[3], 0),
     writes |-> BatchArray(params[2], params[4], WritesBase),
     instruction |-> [is_valid |-> 1, opcode |-> params[1] + params[2]]]

BasicRuntimeCtx(params, to_pc) ==
    [to_pc |-> to_pc, writes |-> BatchArray(params[2], params[4], WritesBase)]

\* <<NUM_READS, NUM_WRITES, READ_SIZE, WRITE_SIZE>>
BasicParams == Batches \X Batches \X BatchSizes \X BatchSizes

Panicked(kind) == [kind |-> kind, shape |-> "panic", params |-> <<>>, ctx |-> <<>>]

ConvStart ==
    /\ \/ \E params \in BasicParams, to_pc \in {<<>>, <<64>>} :
             \/ cv = [kind |-> "air", shape |-> "basic", params |-> params,
                      ctx |-> BasicAirCtx(params, to_pc)]
             \/ cv = [kind |-> "runtime", shape |-> "basic", params |-> params,
                      ctx |-> BasicRuntimeCtx(params, to_pc)]
       \/ \E N \in BatchSizes, M \in Batches :
             cv = [kind |-> "array", shape |-> "fixed", params |-> <<N, M>>,
                   ctx |-> BatchArray(M, N, 0)]
    /\ chist = <<>>
    /\ clast = [fn |-> "none", basic |-> <<>>, flat |-> <<>>, ok |-> TRUE]

\* The result of a conversion becomes the value held; a panic ends the run.
Converted(fn, r, kind, shape, basic, flat) ==
    /\ cv' = IF r.ok
             THEN [kind |-> kind, shape |-> shape,
                   params |-> IF shape = "flat" \/ shape = "dyn" THEN flat ELSE basic,
                   ctx |-> r.ctx]
             ELSE Panicked(kind)
    /\ chist' = Append(chist, cv)
    /\ clast' = [fn |-> fn, basic |-> basic, flat |-> flat, ok |-> r.ok]
    /\ UNCHANGED nonconvvars

\* The target sizes tried: consistent with the source on the read side or on
\* the write side (or both).
OneSideConsistent(basic, flat) ==
    \/ flat[1] = basic[1] * basic[3]
    \/ flat[2] = basic[2] * basic[4]

ConvAirBasicToFlat(READ_CELLS, WRITE_CELLS) ==
    /\ cv.kind = "air" /\ cv.shape = "basic" /\ Len(chist) < MaxConv
    /\ OneSideConsistent(cv.params, <<READ_CELLS, WRITE_CELLS>>)
    /\ Converted("AirBasicToFlat",
                 AirBasicToFlat(cv.ctx, cv.params[1], cv.params[2], cv.params[3],
                                cv.params[4], READ_CELLS, WRITE_CELLS),
                 "air", "flat", cv.params, <<READ_CELLS, WRITE_CELLS>>)

ConvAirFlatToBasic(params) ==
    /\ cv.kind = "air" /\ cv.shape = "flat" /\ Len(chist) < MaxConv
    /\ OneSideConsistent(params, cv.params)
    /\ Converted("AirFlatToBasic",
                 AirFlatToBasic(cv.ctx, params[1], params[2], params[3], params[4],
                                cv.params[1], cv.params[2]),
                 "air", "basic", params, cv.params)

ConvRuntimeBasicToFlat(READ_CELLS, WRITE_CELLS) ==
    /\ cv.kind = "runtime" /\ cv.shape = "basic" /\ Len(chist) < MaxConv
    /\ OneSideConsistent(cv.params, <<READ_CELLS, WRITE_CELLS>>)
    /\ Converted("RuntimeBasicToFlat",
                 RuntimeBasicToFlat(cv.ctx, cv.params[1], cv.params[2], cv.params[3],
                                    cv.params[4], READ_CELLS, WRITE_CELLS),
                 "runtime", "flat", cv.params, <<READ_CELLS, WRITE_CELLS>>)

ConvRuntimeFlatToBasic(params) ==
    /\ cv.kind = "runtime" /\ cv.shape = "flat" /\ Len(chist) < MaxConv
    /\ OneSideConsistent(params, cv.params)
    /\ Converted("RuntimeFlatToBasic",
                 RuntimeFlatToBasic(cv.ctx, params[1], params[2], params[3],
                                    params[4], cv.params[1], cv.params[2]),
                 "runtime", "basic", params, cv.params)

ConvArrayToDyn ==
    /\ cv.kind = "array" /\ cv.shape = "fixed" /\ Len(chist) < MaxConv
    /\ Converted("ArrayToDyn", [ok |-> TRUE, ctx |-> ArrayToDyn(cv.ctx)],
                 "array", "dyn", cv.params, <<Len(ArrayToDyn(cv.ctx))>>)

ConvDynToArray(N, M) ==
    /\ cv.kind = "array" /\ cv.shape = "dyn" /\ Len(chist) < MaxConv
    /\ Converted("DynToArray", DynToArray(cv.ctx, N, M),
                 "array", "fixed", <<N, M>>, cv.params)

ConvNext ==
    \/ \E rc \in Cells, wc \in Cells : ConvAirBasicToFlat(rc, wc)
    \/ \E params \in BasicParams : ConvAirFlatToBasic(params)
    \/ \E rc \in Cells, wc \in Cells : ConvRuntimeBasicToFlat(rc, wc)
    \/ \E params \in BasicParams : ConvRuntimeFlatToBasic(params)
    \/ ConvArrayToDyn
    \/ \E N \in BatchSizes, M \in Batches : ConvDynToArray(N, M)

\* The conversions beside an untouched FRI chip and wrapper.
ConvInit ==
    /\ ChipInit(ExtZero, 0, [k \in 1 .. MaxLen |-> <<2, <<0, 5, 0, 2>>>>])
    /\ WrapperInit
    /\ ConvStart
    /\ ParIdle

ConvSpec == ConvInit /\ [][ConvNext]_vars

\* ------------------------------------------- parallel trace generation run
\* The laid-out operands, with the loop length read from the length cell or
\* from the first cell of b.
ParInstructions ==
    {[a |-> APtrPtr, b |-> BPtrPtr, c |-> ResPtr, d |-> 1, e |-> e, f |-> AlphaPtr] :
        e \in {LengthPtr, BBase}}

\* The chip before its first instruction, no worker started.
ParInit ==
    /\ \E len \in 0 .. MaxLen, ab \in ABVals :
          ChipInit(<<3, 1, 0, 2>>, len, [k \in 1 .. MaxLen |-> ab])
    /\ WrapperInit
    /\ ConvIdle
    /\ ParIdle

\* An instruction executed before trace generation starts.
ParExecute(instruction) ==
    /\ pphase = "idle"
    /\ Execute(instruction)

\* generate_air_proof_input up to the start of the workers: the zeroed
\* buffer of the padded height and its chunks, one per record.
ParAllocate ==
    /\ pphase = "idle"
    /\ phase = "run"
    /\ pbuf' = [r \in 1 .. next_power_of_two_or_zero(height) |-> ZeroRow]
    /\ pchunks' = variable_chunks_mut(0, [k \in 1 .. Len(records) |->
                                             get_height(records[k])])
    /\ ppos' = [k \in 1 .. Len(records) |-> 0]
    /\ pres' = [k \in 1 .. Len(records) |-> ExtZero]
    /\ pphase' = "fill"
    /\ UNCHANGED <<pwrites, pmixed, chipvars, nonparvars>>

\* The worker of record k writes the next row of its slice.
ParWorkerStep(k) ==
    /\ pphase = "fill"
    /\ ppos[k] < get_height(records[k])
    /\ LET w == worker_row(records[k], mem.log, ppos[k], pres[k])
           r == pchunks[k].start + w.at + 1
       IN  /\ pbuf' = [pbuf EXCEPT ![r] = Overlay(@, w.cols)]
           /\ pres' = [pres EXCEPT ![k] = w.result]
           /\ pwrites' = pwrites \cup {<<k, r>>}
    /\ ppos' = [ppos EXCEPT ![k] = @ + 1]
    /\ pmixed' = (pmixed \/ \E j \in 1 .. (k - 1) : ppos[j] < get_height(records[j]))
    /\ UNCHANGED <<pchunks, pphase, chipvars, nonparvars>>

\* for_each has returned: the buffer becomes the matrix.
ParCollect ==
    /\ pphase = "fill"
    /\ \A k \in 1 .. Len(records) : ppos[k] = get_height(records[k])
    /\ trace' = pbuf
    /\ phase' = "done"
    /\ pphase' = "done"
    /\ UNCHANGED <<mem, records, height, vm, saved, savedFrom, nexec, last,
                   pbuf, pchunks, ppos, pres, pwrites, pmixed, nonparvars>>

ParNext ==
    \/ \E instruction \in ParInstructions : ParExecute(instruction)
    \/ ParAllocate
    \/ \E k \in 1 .. Len(records) : ParWorkerStep(k)
    \/ ParCollect

ParSpec == ParInit /\ [][ParNext]_vars

\* -------------------------------------------------- the AIR on any rows
\* The values the freely chosen cells of a candidate row are drawn from: the
\* two tags, a_or_is_first, idx and the fold.  The folds are the values the
\* recurrence reaches from zero with alpha = 0, b = 0 and a = 0 or 1.
TagVals == {0, 1}
CellVals == {0, 1, 2}
FoldVals == {<<(P - a) % P, 0, 0, 0>> : a \in TagVals}

\* The timestamp of a candidate row is that of the row before it, two
\* less or two more; the first row's is FirstTimestamp.
TimeSteps == {P - 2, 2}
FirstTimestamp == 1 + 2 * MaxAirRows

\* A candidate row: the prefix columns as chosen, every other column zero.
\* The two pointers are those of a row `pos` iterations before the end of a
\* loop.
CandidateRow(wl, ins, af, i, res, ts, pos) ==
    Overlay(ZeroRow,
            PrefixCols(GeneralCols(wl, ins, ts), af,
                       DataCols(1, pos, EXT_DEG * pos, i, res, ExtZero)))

\* The constraints hold on the window of the last row of `rows` and the row
\* put after it, a window that is neither the last one nor wraps.
WindowHolds(rows, row) ==
    rows # <<>> =>
        eval(rows[Len(rows)], row,
             [first_row |-> Len(rows) = 1, last_row |-> FALSE, transition |-> TRUE])

Disabled(rows) == {r \in 1 .. Len(rows) : enabled(rows[r]) = 0}

AirInit ==
    /\ ChipInit(ExtZero, 0, [k \in 1 .. MaxLen |-> <<2, <<0, 5, 0, 2>>>>])
    /\ WrapperInit
    /\ ConvIdle
    /\ ParIdle

\* One more row is put after the rows held, whatever its tags, first flag,
\* idx, fold and timestamp step, as long as the window it closes holds (a
\* sequence with a window that fails is rejected however it goes on) and at
\* most MaxDisabled rows are disabled.  Its pointers descend with its place
\* in the sequence, as the workload transition demands.
AppendRow(wl, ins, af, i, res, step) ==
    LET ts == IF arows = <<>> THEN FirstTimestamp
              ELSE (timestamp(arows[Len(arows)]) + step) % P
        row == CandidateRow(wl, ins, af, i, res, ts, MaxAirRows - Len(arows) - 1)
    IN  /\ Len(arows) < MaxAirRows
        /\ WindowHolds(arows, row)
        /\ Cardinality(Disabled(Append(arows, row))) <= MaxDisabled
        /\ arows' = Append(arows, row)
        /\ UNCHANGED nonairvars

AirNext ==
    \E wl \in TagVals, ins \in TagVals, af \in CellVals, i \in CellVals,
       res \in FoldVals, step \in TimeSteps :
        AppendRow(wl, ins, af, i, res, step)

AirSpec == AirInit /\ [][AirNext]_vars

\* ------------------------------------------------------------- properties
ExtOne == elem_to_ext(1)

RECURSIVE ExtPow(_, _)
ExtPow(x, n) == IF n = 0 THEN ExtOne ELSE multiply(ExtPow(x, n - 1), x)

\* What the memory cells hold for an instruction: the loop length, alpha,
\* the base pointers and the elements a[i], b[i] (i from 0).
HeldLength(cells, ins) == cells[ins.d][ins.e]
HeldAlpha(cells, ins) == [k \in 1 .. EXT_DEG |-> cells[ins.d][ins.f + k - 1]]
HeldA(cells, ins, i) == cells[ins.d][cells[ins.d][ins.a] + i]
HeldB(cells, ins, i) ==
    [k \in 1 .. EXT_DEG |-> cells[ins.d][cells[ins.d][ins.b] + EXT_DEG * i + k - 1]]

\* Sum over i in 0 .. n-1 of alpha^i * (b_i - embed(a_i)).
RECURSIVE ReducedOpening(_, _, _)
ReducedOpening(cells, ins, n) ==
    IF n = 0 THEN ExtZero
    ELSE add(ReducedOpening(cells, ins, n - 1),
             multiply(ExtPow(HeldAlpha(cells, ins), n - 1),
                      subtract(HeldB(cells, ins, n - 1),
                               elem_to_ext(HeldA(cells, ins, n - 1)))))

ExecutedOk == last.op = "execute" /\ last.outcome = "Ok"

WrittenResult ==
    [k \in 1 .. EXT_DEG |-> mem.cells[last.instruction.d][last.instruction.c + k - 1]]

\* C1: a successful execute writes to result_ptr the sum over i in 0..L of
\* alpha^i * (b_i - embed(a_i)) of the values the memory held when the call
\* started; for L = 0 it writes the all-zero element.
C1_FoldCorrect ==
    ExecutedOk =>
        LET L == HeldLength(last.cells, last.instruction)
            w == mem.log[Len(mem.log)]
        IN  /\ w.kind = "write"
            /\ w.address_space = last.instruction.d
            /\ w.pointer = last.instruction.c
            /\ w.data = ReducedOpening(last.cells, last.instruction, L)
            /\ WrittenResult = ReducedOpening(last.cells, last.instruction, L)
            /\ (L = 0 => WrittenResult = ExtZero)

\* A fold of at least two terms with a non-zero alpha and a non-zero result.
C1_Witness ==
    /\ ExecutedOk
    /\ HeldLength(last.cells, last.instruction) >= 2
    /\ HeldAlpha(last.cells, last.instruction) # ExtZero
    /\ WrittenResult # ExtZero

\* The loop length a record's length read returned.
RecordLength(record) == mem.log[record.length_read].data[1]

RECURSIVE SumLengthsPlus2(_)
SumLengthsPlus2(recs) ==
    IF recs = <<>> THEN 0
    ELSE RecordLength(Head(recs)) + 2 + SumLengthsPlus2(Tail(recs))

\* C2: after any sequence of execute and load_state calls the height is the
\* sum of (L_k + 2) over the records held, and a successful execute with
\* loop length L adds exactly L + 2.
C2_RowCountLaw ==
    /\ height = SumLengthsPlus2(records)
    /\ ExecutedOk =>
          height = last.height + HeldLength(last.cells, last.instruction) + 2

\* A load_state that replaced a longer record sequence by a shorter non-empty
\* one of positive loop length.
C2_Witness ==
    /\ last.op = "load_state"
    /\ Len(records) >= 1
    /\ nexec > Len(records)
    /\ height > 2 * Len(records)

Generated == phase = "done"

ZeroFold(row) == result(row) = ExtZero

\* C3: the first row of the trace of a non-empty record sequence is a
\* workload row with idx 0 and an all-zero fold value, also when
\* instructions of loop length 0 were executed.
C3_FirstRowWorkload ==
    (Generated /\ Len(records) >= 1) =>
        /\ is_workload_row(trace[1]) = 1
        /\ is_ins_row(trace[1]) = 0
        /\ idx(trace[1]) = 0
        /\ ZeroFold(trace[1])

Enabled(row) == is_workload_row(row) + is_ins_row(row) # 0

\* C4: the last enabled row of the trace of a non-empty record sequence is
\* the row before the padding and is the second instruction row (instruction
\* row, is_first = 0) of the last record.
C4_LastRowInstruction2 ==
    (Generated /\ Len(records) >= 1) =>
        LET en == {r \in 1 .. Len(trace) : Enabled(trace[r])}
            m == CHOOSE r \in en : \A q \in en : q <= r
            lastrec == records[Len(records)]
        IN  /\ en # {}
            /\ m = height
            /\ is_ins_row(trace[m]) = 1
            /\ is_workload_row(trace[m]) = 0
            /\ is_first(trace[m]) = 0
            /\ trace[m] = Overlay(ZeroRow, Instruction2Cols(lastrec, mem.log))

\* A trace of two records that ends with padding rows.
C4_Witness ==
    /\ Generated
    /\ Len(records) >= 2
    /\ Len(trace) > height

IsPowerOfTwo(n) == \E k \in 0 .. n : 2 ^ k = n

\* C5: the matrix has the smallest power-of-two height that is at least the
\* unpadded height (0 for no rows), and every row from the unpadded height on
\* is all-zero, so both of its row-kind tags are 0.
C5_Padding ==
    Generated =>
        /\ (height = 0 => Len(trace) = 0)
        /\ (height > 0 =>
              /\ IsPowerOfTwo(Len(trace))
              /\ Len(trace) >= height
              /\ Len(trace) < 2 * height)
        /\ \A r \in (height + 1) .. Len(trace) :
              /\ trace[r] = ZeroRow
              /\ is_workload_row(trace[r]) = 0
              /\ is_ins_row(trace[r]) = 0

\* A trace whose unpadded height is not a power of two.
C5_Witness ==
    /\ Generated
    /\ height >= 3
    /\ Len(trace) > height

WrapperExecuted == wlast.op = "execute"

\* C6: VmChipWrapper::execute calls preprocess, then execute_instruction on
\* the reads preprocess returned, then postprocess with the core's output and
\* the read record, each once and in that order, a step being called only
\* after the steps before it succeeded; the state returned is the one
\* postprocess produced.
C6_CallOrder ==
    WrapperExecuted =>
        LET c == wlast.calls
            n == Len(c)
        IN  /\ n \in 1 .. 3
            /\ c[1].fn = "preprocess"
            /\ c[1].instruction = wlast.instruction
            /\ (n >= 2 <=> c[1].ret.ok)
            /\ (n >= 2 =>
                  /\ c[2].fn = "execute_instruction"
                  /\ c[2].instruction = wlast.instruction
                  /\ c[2].from_pc = wlast.from_state.pc
                  /\ c[2].reads = c[1].ret.reads)
            /\ (n = 3 <=> (c[1].ret.ok /\ c[2].ret.ok))
            /\ (n = 3 =>
                  /\ c[3].fn = "postprocess"
                  /\ c[3].instruction = wlast.instruction
                  /\ c[3].from_state = wlast.from_state
                  /\ c[3].output = c[2].ret.output
                  /\ c[3].read_record = c[1].ret.read_record)
            /\ (wlast.result.ok =>
                  /\ n = 3
                  /\ c[3].ret.ok
                  /\ wlast.result.state = c[3].ret.to_state
                  /\ wvm = c[3].ret.to_state)

\* A second instruction that ran all three steps, the core choosing the
\* next pc.
C6_Witness ==
    /\ WrapperExecuted
    /\ wlast.result.ok
    /\ Len(wlast.records) >= 1
    /\ wlast.calls[2].ret.output.to_pc # <<>>

\* C7: when a step fails, VmChipWrapper::execute returns that failure, runs
\* no later step and leaves the record sequence as it was; a record triple is
\* appended only when all three steps succeeded.
C7_NoPartialRecord ==
    WrapperExecuted =>
        LET c == wlast.calls
            n == Len(c)
        IN  /\ \A k \in 1 .. n :
                  ~c[k].ret.ok =>
                      /\ k = n
                      /\ wlast.result = Err(c[k].ret.err)
                      /\ wrecords = wlast.records
            /\ (wrecords # wlast.records =>
                  /\ \A k \in 1 .. 3 : k <= n /\ c[k].ret.ok
                  /\ wlast.result.ok
                  /\ wrecords = Append(wlast.records,
                                       <<c[1].ret.read_record, c[3].ret.write_record,
                                         c[2].ret.record>>))
            /\ (wlast.result.ok => wrecords # wlast.records)

\* postprocess failed on a wrapper that already held a record.
C7_Witness ==
    /\ WrapperExecuted
    /\ Len(wlast.calls) = 3
    /\ ~wlast.calls[3].ret.ok
    /\ Len(wlast.records) >= 1

\* C8 (as amended): an execute call either returns Ok having appended exactly
\* one record, or is cut short by a panic having appended no record and left
\* the height unchanged; execute has no Err return, so a call in which the
\* memory rejected an operation panics and produces no record.
C8_ExecuteAtomic ==
    last.op = "execute" =>
        /\ \/ /\ last.outcome = "Ok"
              /\ mem.ok
              /\ Len(records) = Len(last.records) + 1
              /\ SubSeq(records, 1, Len(last.records)) = last.records
           \/ /\ last.outcome = "panic"
              /\ records = last.records
              /\ height = last.height
        /\ (~mem.ok =>
              /\ last.outcome = "panic"
              /\ records = last.records
              /\ height = last.height)

\* C8 (as claimed): an execute call either returns Ok having appended exactly
\* one record, or returns Err having appended no record and left the height
\* unchanged; a call in which the memory rejected an operation returns Err.
C8_ReturnsFailure ==
    last.op = "execute" =>
        /\ \/ /\ last.outcome = "Ok"
              /\ Len(records) = Len(last.records) + 1
           \/ /\ last.outcome = "Err"
              /\ records = last.records
              /\ height = last.height
        /\ (~mem.ok => last.outcome = "Err" /\ records = last.records)

\* The memory rejected the write, after all the reads of a loop were taken.
C8_Witness ==
    /\ last.op = "execute"
    /\ ~mem.ok
    /\ Len(mem.log) >= last.nlog + 6
    /\ Len(last.records) >= 1

\* C9: started at the memory's timestamp, an execute with loop length L
\* performs exactly 2*L + 5 memory operations and returns
\* (pc + DEFAULT_PC_STEP, timestamp + 2*L + 5).
C9_EndState ==
    (ExecutedOk /\ last.from_state.timestamp = mem.log[last.nlog + 1].timestamp) =>
        LET L == HeldLength(last.cells, last.instruction)
        IN  /\ Len(mem.log) - last.nlog = 2 * L + 5
            /\ last.to_state = [pc |-> last.from_state.pc + DEFAULT_PC_STEP,
                                timestamp |-> last.from_state.timestamp + 2 * L + 5]
            /\ vm = last.to_state

\* A second execute with a loop of at least two iterations.
C9_Witness ==
    /\ ExecutedOk
    /\ last.from_state.timestamp = mem.log[last.nlog + 1].timestamp
    /\ last.from_state.pc > 0
    /\ HeldLength(last.cells, last.instruction) >= 2

\* C10: load_state of the bytes store_state returned leaves the chip with
\* the record sequence and the height it had at the store_state.
C10_RoundTrip ==
    last.op = "load_state" =>
        /\ records = savedFrom.records
        /\ height = savedFrom.height

\* A round trip of two records, one of them with a loop.
C10_Witness ==
    /\ last.op = "load_state"
    /\ Len(records) >= 2
    /\ height > 2 * Len(records)


\* ---------------------------------------------------------------- C11, C12
\* The values held so far, the current one last.
Held == Append(chist, cv)

\* C11: a context converted from BasicAdapterInterface to FlatInterface and
\* back to the same BasicAdapterInterface is the original context: same
\* to_pc, same instruction, every read and write element in its batch and
\* place.
C11_ShapeRoundTrip ==
    \A i \in 1 .. (Len(Held) - 2) :
        (/\ Held[i].kind \in {"air", "runtime"}
         /\ Held[i].shape = "basic"
         /\ Held[i + 1].shape = "flat"
         /\ Held[i + 2].shape = "basic"
         /\ Held[i + 2].params = Held[i].params)
        => Held[i + 2].ctx = Held[i].ctx

\* A context of two read batches of two cells went to flat and came back.
C11_Witness ==
    /\ Len(chist) = 2
    /\ cv.kind = "air" /\ cv.shape = "basic"
    /\ chist[2].shape = "flat"
    /\ chist[1].params = cv.params
    /\ cv.params[1] = 2 /\ cv.params[3] = 2
    /\ cv.ctx.reads[2][1] # cv.ctx.reads[1][2]

\* The declared sizes of the last conversion disagree.
ReadsInconsistent == clast.flat[1] # clast.basic[1] * clast.basic[3]
WritesInconsistent == clast.flat[2] # clast.basic[2] * clast.basic[4]

ContextConversions ==
    {"AirBasicToFlat", "AirFlatToBasic", "RuntimeBasicToFlat", "RuntimeFlatToBasic"}

\* C12 as stated: every context conversion fails when the read sizes or the
\* write sizes are inconsistent, and DynArray to a fixed array fails when
\* its length is not N * M.
C12_AllMismatchesFail ==
    /\ clast.fn \in ContextConversions
          => (ReadsInconsistent \/ WritesInconsistent => ~clast.ok)
    /\ clast.fn = "DynToArray"
          => (clast.flat[1] # clast.basic[1] * clast.basic[2] => ~clast.ok)

\* C12 amended: the AdapterAirContext conversions fail on a read or a write
\* mismatch; the AdapterRuntimeContext conversions fail on a write mismatch
\* and complete when only the read sizes disagree; DynArray to a fixed array
\* fails when its length is not N * M.
C12_CheckedMismatchesFail ==
    /\ clast.fn \in {"AirBasicToFlat", "AirFlatToBasic"}
          => (ReadsInconsistent \/ WritesInconsistent => ~clast.ok)
    /\ clast.fn \in {"RuntimeBasicToFlat", "RuntimeFlatToBasic"}
          => (clast.ok <=> ~WritesInconsistent)
    /\ clast.fn = "DynToArray"
          => (clast.flat[1] # clast.basic[1] * clast.basic[2] => ~clast.ok)

\* An AdapterAirContext conversion failed on read sizes that disagree while
\* the write sizes agree.
C12_Witness ==
    /\ clast.fn = "AirBasicToFlat"
    /\ ReadsInconsistent /\ ~WritesInconsistent
    /\ clast.flat[1] < clast.basic[1] * clast.basic[3]
    /\ ~clast.ok

\* -------------------------------------------------------------------- C13
\* Row offset of record k: the heights of the records before it.
BlockOffset(recs, k) == SumHeights(SubSeq(recs, 1, k - 1))

\* Row j (from 1) of the block of record k in the generated trace.
BlockRow(k, j) == trace[BlockOffset(records, k) + j]

\* What the reads of record k returned: alpha, and a[i], b[i] for i from 0.
ReadAlpha(k) == mem.log[records[k].alpha_read].data
ReadA(k, i) == mem.log[records[k].a_reads[i + 1]].data[1]
ReadB(k, i) == mem.log[records[k].b_reads[i + 1]].data
Term(k, i) == subtract(ReadB(k, i), elem_to_ext(ReadA(k, i)))
WrittenBy(k) == mem.log[records[k].result_write].data

\* The records of loop length 2 in a generated trace.
Length2Records ==
    {k \in 1 .. Len(records) : Generated /\ RecordLength(records[k]) = 2}

\* What C13 says apart from the fold of the second workload row: the result
\* written, the four rows of the block and the first workload row.
ScenarioShape(k) ==
    /\ WrittenBy(k) = add(Term(k, 0), multiply(ReadAlpha(k), Term(k, 1)))
    /\ get_height(records[k]) = 4
    /\ is_workload_row(BlockRow(k, 1)) = 1 /\ is_ins_row(BlockRow(k, 1)) = 0
    /\ is_workload_row(BlockRow(k, 2)) = 1 /\ is_ins_row(BlockRow(k, 2)) = 0
    /\ is_workload_row(BlockRow(k, 3)) = 0 /\ is_ins_row(BlockRow(k, 3)) = 1
    /\ is_workload_row(BlockRow(k, 4)) = 0 /\ is_ins_row(BlockRow(k, 4)) = 1
    /\ is_first(BlockRow(k, 3)) = 1 /\ is_first(BlockRow(k, 4)) = 0
    /\ idx(BlockRow(k, 1)) = 0 /\ ZeroFold(BlockRow(k, 1))
    /\ idx(BlockRow(k, 2)) = 1

\* C13 as stated: for an instruction of length 2 the result is
\* (b0 - a0) + alpha * (b1 - a1), its block is two workload rows then two
\* instruction rows, the first workload row has idx 0 and fold 0, and the
\* second has idx 1 and stores the fold (b0 - a0).
C13_SecondRowHoldsFirstTerm ==
    \A k \in Length2Records :
        /\ ScenarioShape(k)
        /\ result(BlockRow(k, 2)) = Term(k, 0)

\* C13 amended: as above, but the second workload row stores the fold
\* (b1 - a1), the contribution of the last loop iteration.
C13_SecondRowHoldsLastTerm ==
    \A k \in Length2Records :
        /\ ScenarioShape(k)
        /\ result(BlockRow(k, 2)) = Term(k, 1)

\* A generated block of length 2 whose two terms differ, with alpha not 0.
C13_Witness ==
    \E k \in Length2Records :
        /\ Term(k, 0) # Term(k, 1)
        /\ ReadAlpha(k) # ExtZero
        /\ result(BlockRow(k, 2)) # ExtZero

\* -------------------------------------------------------------------- C14
\* The row range [offset_k + 1, offset_k + L_k + 2] of record k (rows from 1).
OwnRange(k) ==
    (BlockOffset(records, k) + 1) ..
        (BlockOffset(records, k) + RecordLength(records[k]) + 2)

\* C14: the worker of record k writes only rows of [offset_k, offset_k + L_k
\* + 2), offset_k being the heights of the records before it; the ranges are
\* pairwise disjoint and inside the padded buffer; and whatever the
\* interleaving of the workers the matrix is the one the sequential fill of
\* the records in order gives.
C14_DisjointWorkers ==
    /\ pphase # "idle" =>
          /\ \A k \in 1 .. Len(records) :
                /\ pchunks[k].start = BlockOffset(records, k)
                /\ pchunks[k].size = RecordLength(records[k]) + 2
                /\ \A r \in OwnRange(k) : r <= Len(pbuf)
          /\ \A j, k \in 1 .. Len(records) :
                j # k => OwnRange(j) \cap OwnRange(k) = {}
    /\ \A w \in pwrites : w[2] \in OwnRange(w[1])
    /\ pphase = "done" =>
          trace = generate_air_proof_input(records, height, mem.log)

\* The matrix of two records of different loop lengths, collected after a
\* worker wrote while the worker of an earlier record was still writing.
C14_Witness ==
    /\ pphase = "done"
    /\ pmixed
    /\ Len(records) >= 2
    /\ RecordLength(records[1]) # RecordLength(records[2])
    /\ RecordLength(records[2]) >= 1

\* -------------------------------------------------------------------- C15
WrapperGenerated == wlast.op = "generate_trace"

\* Row k (from 1) of the matrix generate_trace returned.
WrapperRow(k) ==
    [j \in 1 .. wtrace.width |-> wtrace.values[(k - 1) * wtrace.width + j]]

WrapperTraceHeight == Len(wtrace.values) \div wtrace.width

\* C15: the matrix generate_trace returns has width adapter-width +
\* core-width and the smallest power-of-two height that holds the records
\* (0 for none); row k is filled from the k-th appended record, the adapter
\* columns first; the rows from the record count on are all-zero; and
\* current_trace_height() is the number of records.
C15_WrapperTrace ==
    WrapperGenerated =>
        LET n == Len(wrecords)
            H == WrapperTraceHeight
        IN  /\ wtrace.width = AdapterWidth + CoreWidth
            /\ wlast.trace_width = wtrace.width
            /\ Len(wtrace.values) = H * wtrace.width
            /\ (n = 0 => H = 0)
            /\ (n > 0 => IsPowerOfTwo(H) /\ H >= n /\ H < 2 * n)
            /\ \A k \in 1 .. n :
                  /\ WrapperRow(k)[1] = wrecords[k][1][3]
                  /\ WrapperRow(k)[2] = wrecords[k][2][2]
                  /\ \A j \in 3 .. AdapterWidth : WrapperRow(k)[j] = 0
                  /\ WrapperRow(k)[AdapterWidth + 1] = wrecords[k][3][2]
                  /\ WrapperRow(k)[AdapterWidth + 2] = wrecords[k][3][3]
                  /\ WrapperRow(k)[AdapterWidth + 3] = wrecords[k][3][4]
                  /\ \A j \in (AdapterWidth + 4) .. wtrace.width : WrapperRow(k)[j] = 0
            /\ \A k \in (n + 1) .. H : \A j \in 1 .. wtrace.width : WrapperRow(k)[j] = 0
            /\ wlast.current_trace_height = n

\* A trace of three records, so with one padding row, whose records differ.
C15_Witness ==
    /\ WrapperGenerated
    /\ Len(wrecords) = 3
    /\ WrapperTraceHeight > Len(wrecords)
    /\ WrapperRow(1) # WrapperRow(2)

\* -------------------------------------------------------------------- C16
\* Every executed instruction held had a loop length of at least 1.
AllLengthsPositive == \A k \in 1 .. Len(records) : RecordLength(records[k]) >= 1

\* C16: when every executed instruction has a loop length >= 1, the padded
\* trace satisfies every constraint of FriReducedOpeningAir on every row and
\* every pair of adjacent rows.
C16_TraceSatisfiesAir ==
    (Generated /\ AllLengthsPositive) => AirAccepts(trace)

\* An accepted trace of two instructions that ends with padding rows.
C16_Witness ==
    /\ Generated
    /\ AllLengthsPositive
    /\ Len(records) >= 2
    /\ Len(trace) > height
    /\ AirAccepts(trace)


\* ------------------------------------------ C18: the workload rows' reads
\* What a bus message and a memory log record say about one operation:
\* kind, address, value and timestamp (as field elements).
Operation(kind, as, ptr, data, ts) ==
    [kind |-> kind, address_space |-> as, pointer |-> ptr, data |-> data,
     timestamp |-> ts]

Asserted(m) ==
    Operation(m.kind, m.address_space, m.pointer, m.data, m.timestamp)

Performed(id) ==
    LET e == record_by_id(mem.log, id)
    IN  Operation(e.kind, e.address_space, from_canonical(e.pointer), e.data,
                  from_canonical(e.timestamp))

HeldAPtr(k) == mem.log[records[k].a_ptr_read].data[1]
HeldBPtr(k) == mem.log[records[k].b_ptr_read].data[1]

\* The rows of block k that assert, with multiplicity 1, a read of a dated
\* as iteration j of the record's loop.
IterationRows(k, j) ==
    {r \in 1 .. get_height(records[k]) - 1 :
        LET m == workload_interactions(BlockRow(k, r), BlockRow(k, r + 1))[1]
        IN  /\ m.multiplicity = 1
            /\ m.timestamp = (records[k].start_timestamp + 4 + 2 * j) % P}

\* C18: for every record and every iteration j of its loop, exactly one row
\* of the record's block asserts the reads of iteration j, and the two reads
\* it asserts are the read of a[j] at (addr_space, a_ptr + j), timestamp
\* start + 4 + 2j, and of b[j] at (addr_space, b_ptr + EXT_DEG * j), timestamp
\* start + 5 + 2j: the operations execute performed in iteration j.
C18_WorkloadReads ==
    Generated =>
      \A k \in 1 .. Len(records) :
        \A j \in 0 .. RecordLength(records[k]) - 1 :
          /\ Cardinality(IterationRows(k, j)) = 1
          /\ \A r \in IterationRows(k, j) :
               LET local == BlockRow(k, r)
                   reads == workload_interactions(local, BlockRow(k, r + 1))
                   rec == records[k]
               IN  /\ is_workload_row(local) = 1
                   /\ reads[2].multiplicity = 1
                   /\ Asserted(reads[1]) = Performed(rec.a_reads[j + 1])
                   /\ Asserted(reads[2]) = Performed(rec.b_reads[j + 1])
                   /\ Asserted(reads[1]) =
                        Operation("read", rec.instruction.d,
                                  (HeldAPtr(k) + j) % P, <<ReadA(k, j)>>,
                                  (rec.start_timestamp + 4 + 2 * j) % P)
                   /\ Asserted(reads[2]) =
                        Operation("read", rec.instruction.d,
                                  (HeldBPtr(k) + EXT_DEG * j) % P, ReadB(k, j),
                                  (rec.start_timestamp + 5 + 2 * j) % P)

\* A trace whose second record has a loop of two iterations reading two
\* different values of a.
C18_Witness ==
    /\ Generated
    /\ Len(records) >= 2
    /\ RecordLength(records[2]) = 2
    /\ ReadA(2, 0) # ReadA(2, 1)
    /\ Cardinality(IterationRows(2, 0) \cup IterationRows(2, 1)) = 2


\* --------------------------------------- C19: the instruction rows' memory
\* The first instruction row of block k and the row after it.
Ins1Row(k) == BlockRow(k, RecordLength(records[k]) + 1)
Ins2Row(k) == BlockRow(k, RecordLength(records[k]) + 2)

\* The rows of block k from which eval_instruction1_row asserts its
\* interactions with a multiplicity other than zero.
AssertingRows(k) ==
    {r \in 1 .. get_height(records[k]) :
        LET ms == instruction1_memory(BlockRow(k, r),
                                      NextRow(trace, BlockOffset(records, k) + r))
        IN  \E n \in 1 .. Len(ms) : ms[n].multiplicity # 0}

\* C19: for every record, the memory-bus interactions of its instruction rows
\* are asserted once, from the first instruction row, and are the reads of
\* alpha, length, a_ptr and b_ptr at start + 0, 1, 2, 3 and the write of the
\* final fold value at (addr_space, result_ptr), start + 2L + 4, each the
\* operation execute performed.
C19_InstructionMemory ==
    Generated =>
      \A k \in 1 .. Len(records) :
        LET rec == records[k]
            L == RecordLength(rec)
            ins == rec.instruction
            start == rec.start_timestamp
            ms == instruction1_memory(Ins1Row(k), Ins2Row(k))
        IN  /\ AssertingRows(k) = {L + 1}
            /\ \A n \in 1 .. Len(ms) : ms[n].multiplicity = 1
            /\ Asserted(ms[1]) = Performed(rec.alpha_read)
            /\ Asserted(ms[2]) = Performed(rec.length_read)
            /\ Asserted(ms[3]) = Performed(rec.a_ptr_read)
            /\ Asserted(ms[4]) = Performed(rec.b_ptr_read)
            /\ Asserted(ms[5]) = Performed(rec.result_write)
            /\ Asserted(ms[1]) =
                 Operation("read", ins.d, ins.f, ReadAlpha(k), start)
            /\ Asserted(ms[2]) =
                 Operation("read", ins.d, ins.e, <<L>>, (start + 1) % P)
            /\ Asserted(ms[3]) =
                 Operation("read", ins.d, ins.a, <<HeldAPtr(k)>>, (start + 2) % P)
            /\ Asserted(ms[4]) =
                 Operation("read", ins.d, ins.b, <<HeldBPtr(k)>>, (start + 3) % P)
            /\ Asserted(ms[5]) =
                 Operation("write", ins.d, ins.c, WrittenBy(k),
                           (start + 2 * L + 4) % P)

\* A trace of two records, the second with a loop of two iterations and a
\* result other than zero written after the reads of its loop.
C19_Witness ==
    /\ Generated
    /\ Len(records) >= 2
    /\ RecordLength(records[2]) = 2
    /\ WrittenBy(2) # ExtZero
    /\ instruction1_memory(Ins1Row(2), Ins2Row(2))[5].timestamp
         = (records[2].start_timestamp + 8) % P
    /\ records[2].start_timestamp > 0


\* ----------------------------------- C20: the execution-bus interaction
\* An ExecutionState as the field elements the bus carries.
StateCols(state) ==
    [pc |-> from_canonical(state.pc), timestamp |-> from_canonical(state.timestamp)]

\* The interaction an executed record stands for: its instruction's operands,
\* the state it started from and the state 2L + 5 ticks later.
ExecutionOf(rec) ==
    LET ins == rec.instruction
        L == RecordLength(rec)
    IN  execution_bridge(FRI_REDUCED_OPENING,
                         <<ins.a, ins.b, ins.c, ins.d, ins.e, ins.f>>,
                         [pc |-> rec.pc, timestamp |-> rec.start_timestamp],
                         [pc |-> (rec.pc + DEFAULT_PC_STEP) % P,
                          timestamp |-> (rec.start_timestamp + 2 * L + 5) % P],
                         1)

\* The rows of block k from which the execution-bus interaction is asserted
\* with a multiplicity other than zero.
ExecutingRows(k) ==
    {r \in 1 .. get_height(records[k]) :
        instruction1_execute(BlockRow(k, r),
                             NextRow(trace, BlockOffset(records, k) + r)).multiplicity # 0}

\* C20: the record a successful execute pushed yields, from its first
\* instruction row, the execution-bus interaction with the FRI_REDUCED_OPENING
\* opcode, the operands (a, b, c, d, e, f) of the instruction, the state
\* execute was called with and the state it returned,
\* (pc + DEFAULT_PC_STEP, start_timestamp + 2L + 5); in the generated trace
\* every record's block asserts that interaction once, from its first
\* instruction row.
C20_ExecutionInteraction ==
    /\ ExecutedOk =>
         LET rec == records[Len(records)]
             rows == record_to_rows(rec, mem.log)
             L == RecordLength(rec)
             m == instruction1_execute(rows[L + 1], rows[L + 2])
         IN  /\ m = ExecutionOf(rec)
             /\ m.opcode = FRI_REDUCED_OPENING
             /\ m.operands = <<last.instruction.a, last.instruction.b,
                               last.instruction.c, last.instruction.d,
                               last.instruction.e, last.instruction.f>>
             /\ m.from_state = StateCols(last.from_state)
             /\ m.to_state = StateCols(last.to_state)
             /\ last.to_state =
                  [pc |-> last.from_state.pc + DEFAULT_PC_STEP,
                   timestamp |-> last.from_state.timestamp + 2 * L + 5]
             /\ m.multiplicity = 1
    /\ Generated =>
         \A k \in 1 .. Len(records) :
            /\ ExecutingRows(k) = {RecordLength(records[k]) + 1}
            /\ instruction1_execute(Ins1Row(k), Ins2Row(k)) = ExecutionOf(records[k])

\* A second instruction executed with a loop of two iterations, from a state
\* other than the initial one.
C20_Witness ==
    /\ ExecutedOk
    /\ Len(records) >= 2
    /\ RecordLength(records[Len(records)]) = 2
    /\ last.from_state.timestamp > 1
    /\ last.to_state.timestamp = last.from_state.timestamp + 9


\* ------------------------------------ C17: the shape the AIR enforces
Accepted == Len(arows) >= 1 /\ AirAccepts(arows)

IsWorkloadRow(row) == is_workload_row(row) = 1
IsFirstInsRow(row) == is_ins_row(row) = 1 /\ is_first(row) = 1
IsSecondInsRow(row) == is_ins_row(row) = 1 /\ is_first(row) = 0

\* Row r begins a maximal run of workload rows.
RunStart(rows, r) ==
    IsWorkloadRow(rows[r]) /\ (r = 1 \/ ~IsWorkloadRow(rows[r - 1]))

\* The number of workload rows that immediately precede row r.
RunBefore(rows, r) ==
    CHOOSE k \in 0 .. r - 1 :
        /\ \A j \in r - k .. r - 1 : IsWorkloadRow(rows[j])
        /\ k = r - 1 \/ ~IsWorkloadRow(rows[r - k - 1])

\* C17: in a row sequence that satisfies every constraint of the AIR, a first
\* instruction row comes right after a workload row and right before a second
\* instruction row, every maximal run of workload rows starts with idx = 0
\* and a zero fold, and the first instruction row that ends a run of k
\* workload rows has idx = k, k >= 1: no instruction block is without
\* workload rows.
C17_AcceptedShape ==
    Accepted =>
      \A r \in 1 .. Len(arows) :
        /\ IsFirstInsRow(arows[r]) =>
              /\ r > 1 /\ IsWorkloadRow(arows[r - 1])
              /\ r < Len(arows) /\ IsSecondInsRow(arows[r + 1])
              /\ RunBefore(arows, r) >= 1
              /\ idx(arows[r]) = RunBefore(arows, r)
        /\ RunStart(arows, r) =>
              /\ idx(arows[r]) = 0
              /\ result(arows[r]) = ExtZero

\* An accepted sequence with two runs of workload rows, the first ended by
\* an instruction block, the second begun right after it.
C17_Witness ==
    /\ Accepted
    /\ \E r \in 2 .. Len(arows) - 2 :
          /\ IsFirstInsRow(arows[r])
          /\ IsSecondInsRow(arows[r + 1])
          /\ RunStart(arows, r + 2)
          /\ result(arows[r]) # ExtZero

\* An accepted sequence whose instruction block ends a run of two workload
\* rows.
AcceptedLength2Block ==
    /\ Accepted
    /\ \E r \in 1 .. Len(arows) : IsFirstInsRow(arows[r]) /\ idx(arows[r]) = 2


\* ------------------------------------------- C21: the fold stored per row
\* C21: in the generated trace the first workload row of every block stores
\* a zero fold, every later row of the block up to the first instruction row
\* stores prev.fold * alpha + prev.b - embed(prev.a) of the row before it,
\* and the fold of the first instruction row is the value execute wrote.
C21_FoldPerRow ==
    Generated =>
      \A k \in 1 .. Len(records) :
        LET L == RecordLength(records[k])
        IN  /\ L >= 1 => result(BlockRow(k, 1)) = ExtZero
            /\ \A j \in 2 .. L + 1 :
                 result(BlockRow(k, j)) = expected_result(BlockRow(k, j - 1))
            /\ result(Ins1Row(k)) = WrittenBy(k)

\* A generated block of two workload rows whose second row and first
\* instruction row store two different folds, neither zero, with alpha other
\* than zero.
C21_Witness ==
    /\ Generated
    /\ \E k \in 1 .. Len(records) :
          /\ RecordLength(records[k]) = 2
          /\ ReadAlpha(k) # ExtZero
          /\ result(BlockRow(k, 1)) = ExtZero
          /\ result(BlockRow(k, 2)) # ExtZero
          /\ result(Ins1Row(k)) # ExtZero
          /\ result(Ins1Row(k)) # result(BlockRow(k, 2))


\* -------------------------------------- C22: what a workload row carries
\* C22: in the block of a record of loop length L the workload row at
\* physical position i carries a and b of iteration L - 1 - i, idx = i,
\* a_ptr + (L - i), b_ptr + EXT_DEG * (L - i), start_timestamp + 2 * (L - i)
\* and the instruction's alpha and address space; from it to the row after
\* it idx grows by 1, a_ptr falls by 1, b_ptr falls by EXT_DEG, alpha and the
\* address space stay.
C22_WorkloadRowContents ==
    Generated =>
      \A k \in 1 .. Len(records) :
        LET rec == records[k]
            L == RecordLength(rec)
        IN  \A i \in 0 .. L - 1 :
              LET row == BlockRow(k, i + 1)
                  nxt == BlockRow(k, i + 2)
              IN  /\ is_workload_row(row) = 1
                  /\ a_or_is_first(row) = ReadA(k, L - 1 - i)
                  /\ b(row) = ReadB(k, L - 1 - i)
                  /\ idx(row) = i
                  /\ a_ptr(row) = (HeldAPtr(k) + (L - i)) % P
                  /\ b_ptr(row) = (HeldBPtr(k) + EXT_DEG * (L - i)) % P
                  /\ timestamp(row) = (rec.start_timestamp + 2 * (L - i)) % P
                  /\ alpha(row) = ReadAlpha(k)
                  /\ addr_space(row) = rec.instruction.d
                  /\ idx(nxt) = (idx(row) + 1) % P
                  /\ (a_ptr(nxt) + 1) % P = a_ptr(row)
                  /\ (b_ptr(nxt) + EXT_DEG) % P = b_ptr(row)
                  /\ alpha(nxt) = alpha(row)
                  /\ addr_space(nxt) = addr_space(row)

\* A generated block of two workload rows that carry different a and
\* different b, with alpha other than zero.
C22_Witness ==
    /\ Generated
    /\ \E k \in 1 .. Len(records) :
          /\ RecordLength(records[k]) = 2
          /\ ReadAlpha(k) # ExtZero
          /\ a_or_is_first(BlockRow(k, 1)) # a_or_is_first(BlockRow(k, 2))
          /\ b(BlockRow(k, 1)) # b(BlockRow(k, 2))
          /\ a_or_is_first(BlockRow(k, 1)) = ReadA(k, 1)
          /\ idx(BlockRow(k, 2)) = 1


\* ------------------------------- C23: the timestamps of workload transitions
\* The blocks record_to_rows writes for one instruction executed on the
\* laid-out memory, one for every loop length.
SampleRun(len) ==
    execute([ok |-> TRUE,
             cells |-> InitCells(<<3, 1, 0, 2>>, len,
                                 [k \in 1 .. MaxLen |-> <<2, <<0, 5, 0, 2>>>>]),
             log |-> <<>>, ts |-> 1],
            <<>>, 0,
            [a |-> APtrPtr, b |-> BPtrPtr, c |-> ResPtr, d |-> 1,
             e |-> LengthPtr, f |-> AlphaPtr],
            [pc |-> 0, timestamp |-> 1])

SampleBlocks ==
    [len \in 0 .. MaxLen |->
        record_to_rows(SampleRun(len).records[1], SampleRun(len).mem.log)]

\* The windows of `rows` whose local row is a workload row and is not the
\* last row.
WorkloadTransitions(rows) ==
    {r \in 1 .. Len(rows) - 1 : IsWorkloadRow(rows[r])}

\* The statement as made: the next row's timestamp is the local row's plus 2.
C23_TimestampGrowsBy2 ==
    /\ Accepted =>
         \A r \in WorkloadTransitions(arows) :
            timestamp(arows[r + 1]) = (timestamp(arows[r]) + 2) % P
    /\ \A len \in 0 .. MaxLen :
         \A r \in WorkloadTransitions(SampleBlocks[len]) :
            timestamp(SampleBlocks[len][r + 1])
              = (timestamp(SampleBlocks[len][r]) + 2) % P

\* C23: on every transition whose local row is a workload row the local
\* row's timestamp is the next row's plus 2 (the next row's is 2 less), both
\* in every row sequence the constraints accept and in the rows trace
\* generation writes for a block.
C23_TimestampFallsBy2 ==
    /\ Accepted =>
         \A r \in WorkloadTransitions(arows) :
            timestamp(arows[r]) = (timestamp(arows[r + 1]) + 2) % P
    /\ \A len \in 0 .. MaxLen :
         \A r \in WorkloadTransitions(SampleBlocks[len]) :
            timestamp(SampleBlocks[len][r])
              = (timestamp(SampleBlocks[len][r + 1]) + 2) % P

\* An accepted sequence with two workload transitions, and a written block
\* with as many.
C23_Witness ==
    /\ Accepted
    /\ Cardinality(WorkloadTransitions(arows)) >= 2
    /\ \E r \in WorkloadTransitions(arows) : IsFirstInsRow(arows[r + 1])
    /\ Cardinality(WorkloadTransitions(SampleBlocks[2])) = 2


\* ------------------------------------------- C24: where the blocks lie
\* The first row (from 0) of the k-th record's block: the sum of L_m + 2
\* over the records before it.
BlockStart(k) == SumLengthsPlus2(SubSeq(records, 1, k - 1))

\* C24: in the generated trace the rows of the k-th record are the L_k + 2
\* rows from row BlockStart(k) on: L_k workload rows, the first instruction
\* row, the second instruction row, as record_to_rows writes them for that
\* record; the blocks follow one another in the order of the records and the
\* last one ends at the chip's height.
C24_BlockLayout ==
    Generated =>
      /\ \A k \in 1 .. Len(records) :
           LET L == RecordLength(records[k])
               row(j) == trace[BlockStart(k) + j]
           IN  /\ \A j \in 1 .. L :
                    /\ is_workload_row(row(j)) = 1 /\ is_ins_row(row(j)) = 0
                    /\ idx(row(j)) = j - 1
               /\ is_ins_row(row(L + 1)) = 1 /\ is_workload_row(row(L + 1)) = 0
               /\ is_first(row(L + 1)) = 1
               /\ is_ins_row(row(L + 2)) = 1 /\ is_workload_row(row(L + 2)) = 0
               /\ is_first(row(L + 2)) = 0
               /\ SubSeq(trace, BlockStart(k) + 1, BlockStart(k) + L + 2)
                    = record_to_rows(records[k], mem.log)
               /\ pc(row(L + 1)) = records[k].pc
               /\ BlockStart(k) + L + 2 =
                    IF k = Len(records) THEN height ELSE BlockStart(k + 1)
      /\ Len(records) = 0 => height = 0

\* A trace of two blocks of different loop lengths, the second one with
\* workload rows and not at row 0.
C24_Witness ==
    /\ Generated
    /\ Len(records) = 2
    /\ RecordLength(records[1]) # RecordLength(records[2])
    /\ RecordLength(records[2]) >= 1
    /\ records[1].pc # records[2].pc
    /\ BlockStart(2) >= 2
    /\ is_workload_row(trace[BlockStart(2) + 1]) = 1


\* ------------------------------------------------ C25: the multiplicities
\* Every interaction the evaluator asserts on the window of trace row r: the
\* two workload reads, the five instruction-row memory operations, the
\* execution-bus interaction.
WorkloadMessages(r) == workload_interactions(trace[r], NextRow(trace, r))
InstructionMessages(r) ==
    instruction1_memory(trace[r], NextRow(trace, r))
    \o <<instruction1_execute(trace[r], NextRow(trace, r))>>
RowMessages(r) == WorkloadMessages(r) \o InstructionMessages(r)

Silent(ms) == \A n \in 1 .. Len(ms) : ms[n].multiplicity = 0

\* The (row, message) pairs of block k asserted on the given bus with a
\* multiplicity other than zero.
BlockMessages(k, bus) ==
    {<<j, n>> \in (1 .. get_height(records[k]))
                    \X (1 .. Len(RowMessages(BlockOffset(records, k) + 1))) :
        LET m == RowMessages(BlockOffset(records, k) + j)[n]
        IN  m.bus = bus /\ m.multiplicity # 0}

\* C25: in the generated trace a padding row asserts nothing, a workload row
\* asserts none of the instruction-row interactions whatever its a holds, an
\* instruction row asserts no workload read and the second instruction row
\* nothing at all; every multiplicity is 0 or 1, and a block of loop length
\* L asserts one execution-bus interaction and 2L + 5 memory-bus operations.
C25_Multiplicities ==
    Generated =>
      /\ \A r \in 1 .. Len(trace) :
           /\ \A n \in 1 .. Len(RowMessages(r)) :
                 RowMessages(r)[n].multiplicity \in {0, 1}
           /\ r > height => Silent(RowMessages(r))
           /\ is_workload_row(trace[r]) = 1 =>
                 /\ Silent(InstructionMessages(r))
                 /\ \A n \in 1 .. 2 : WorkloadMessages(r)[n].multiplicity = 1
           /\ is_ins_row(trace[r]) = 1 => Silent(WorkloadMessages(r))
      /\ \A k \in 1 .. Len(records) :
           LET L == RecordLength(records[k])
           IN  /\ Cardinality(BlockMessages(k, "execution")) = 1
               /\ Cardinality(BlockMessages(k, "memory")) = 2 * L + 5
               /\ Silent(RowMessages(BlockOffset(records, k) + L + 2))

\* A padded trace with a block of two workload rows that hold values of a
\* other than 0 and 1.
C25_Witness ==
    /\ Generated
    /\ Len(trace) > height
    /\ \E k \in 1 .. Len(records) :
          /\ RecordLength(records[k]) = 2
          /\ a_or_is_first(BlockRow(k, 1)) \notin {0, 1}
          /\ a_or_is_first(BlockRow(k, 2)) \notin {0, 1}
          /\ Cardinality(BlockMessages(k, "memory")) = 9


\* ---------------------------- C26: the boundary into the instruction rows
\* C26: in a row sequence the constraints accept, an instruction row that
\* follows a row that is not an instruction row has its first flag equal to
\* 1, and the row before it is a workload row: a workload row is never
\* followed by a second instruction row.
C26_BoundaryIntoInstruction ==
    Accepted =>
      \A r \in 1 .. Len(arows) - 1 :
        /\ (is_ins_row(arows[r]) # 1 /\ is_ins_row(arows[r + 1]) = 1) =>
              /\ is_first(arows[r + 1]) = 1
              /\ IsWorkloadRow(arows[r])
        /\ IsWorkloadRow(arows[r]) => ~IsSecondInsRow(arows[r + 1])

\* An accepted sequence in which a run of two workload rows is followed by an
\* instruction row.
C26_Witness ==
    /\ Accepted
    /\ \E r \in 2 .. Len(arows) - 1 :
          /\ IsWorkloadRow(arows[r - 1])
          /\ IsWorkloadRow(arows[r])
          /\ is_ins_row(arows[r + 1]) = 1


\* --------------------------- C27: the row after a second instruction row
\* The padded trace of two instructions executed one after the other on the
\* laid-out memory, for every loop length from 1 on.
SampleTrace(len) ==
    LET first == SampleRun(len)
        second == execute(first.mem, first.records, first.height,
                          [a |-> APtrPtr, b |-> BPtrPtr, c |-> ResPtr, d |-> 1,
                           e |-> LengthPtr, f |-> AlphaPtr],
                          first.to_state)
    IN  generate_air_proof_input(second.records, second.height, second.mem.log)

SampleTraces == [len \in 1 .. MaxLen |-> SampleTrace(len)]

\* The rows of `rows`, the last one left out, that are second instruction
\* rows.
SecondInsTransitions(rows) ==
    {r \in 1 .. Len(rows) - 1 : IsSecondInsRow(rows[r])}

StartsBlock(row) == is_ins_row(row) = 0 /\ idx(row) = 0 /\ result(row) = ExtZero

AcceptedWithPadding ==
    /\ Accepted
    /\ \E r \in SecondInsTransitions(arows) : enabled(arows[r + 1]) = 0


\* ------------------------------------------- C28: how a sequence may end
EnabledRows(rows) == {r \in 1 .. Len(rows) : enabled(rows[r]) # 0}

LastEnabled(rows) ==
    CHOOSE r \in EnabledRows(rows) : \A q \in EnabledRows(rows) : q <= r

\* C28: in a row sequence the constraints accept, the last enabled row,
\* whether it is the last row or is followed by disabled rows, is an
\* instruction row with first flag 0.
C28_NeverEndsMidBlock ==
    (Accepted /\ EnabledRows(arows) # {}) =>
        IsSecondInsRow(arows[LastEnabled(arows)])

\* The part of it the last-row safeguard does enforce: an enabled last row is
\* a second instruction row.
EnabledLastRowIsSecondIns ==
    (Accepted /\ enabled(arows[Len(arows)]) # 0) =>
        IsSecondInsRow(arows[Len(arows)])

\* The only way an accepted sequence ends inside a block: its last enabled
\* row is a workload row followed by a disabled row.
EndsMidBlockOnlyAfterWorkload ==
    (Accepted /\ EnabledRows(arows) # {}) =>
        \/ IsSecondInsRow(arows[LastEnabled(arows)])
        \/ /\ IsWorkloadRow(arows[LastEnabled(arows)])
           /\ LastEnabled(arows) < Len(arows)


\* ------------------------------------- C29: the first flag is boolean
\* The candidate rows, at one timestamp and one place.
CandidateRows ==
    {CandidateRow(wl, ins, af, i, res, FirstTimestamp, 0) :
        wl \in TagVals, ins \in TagVals, af \in CellVals, i \in CellVals,
        res \in FoldVals}

\* What the row's own constraints say of an instruction row whose first flag
\* is neither 0 nor 1: whatever row follows, the two instruction-row
\* evaluators do not both hold on the transition, and the second one does not
\* hold when the row is the last one.
OwnConstraintsReject ==
    \A local \in {row \in CandidateRows :
                     is_ins_row(row) = 1 /\ is_first(row) \notin {0, 1}} :
      \A next \in CandidateRows :
        /\ ~(/\ eval_instruction1_row(local, next,
                   [first_row |-> FALSE, last_row |-> FALSE, transition |-> TRUE])
             /\ eval_instruction2_row(local, next,
                   [first_row |-> FALSE, last_row |-> FALSE, transition |-> TRUE]))
        /\ ~eval_instruction2_row(local, next,
                   [first_row |-> FALSE, last_row |-> TRUE, transition |-> FALSE])

\* C29: in a row sequence the constraints accept, the first flag of every
\* instruction row is 0 or 1; an instruction row with another flag fails its
\* own constraints, on the transition or as the last row.
C29_FirstFlagBoolean ==
    /\ Accepted =>
         \A r \in 1 .. Len(arows) :
            is_ins_row(arows[r]) = 1 => is_first(arows[r]) \in {0, 1}
    /\ OwnConstraintsReject

\* An accepted sequence of two workload rows, a first and a second
\* instruction row, the second one the last row.
C29_Witness ==
    /\ Accepted
    /\ Len(arows) = 4
    /\ \E r \in 1 .. Len(arows) : IsFirstInsRow(arows[r])
    /\ IsSecondInsRow(arows[Len(arows)])

\* An instruction row with a first flag other than 0 and 1 can be put after
\* no row: every sequence that holds one holds it as its only row, and is
\* rejected.
NonBooleanFirstFlagRejected ==
    \A r \in 1 .. Len(arows) :
        (is_ins_row(arows[r]) = 1 /\ is_first(arows[r]) \notin {0, 1}) =>
            (Len(arows) = 1 /\ ~AirAccepts(arows))


\* ---------------------------------------- C30: the tags of generated rows
\* C30: every row of the generated padded trace has is_workload_row and
\* is_ins_row in {0, 1} and not both 1, and after a row with both tags 0
\* every row up to the end of the trace has both tags 0.
C30_GeneratedTags ==
    Generated =>
      \A r \in 1 .. Len(trace) :
        /\ is_workload_row(trace[r]) \in {0, 1}
        /\ is_ins_row(trace[r]) \in {0, 1}
        /\ ~(is_workload_row(trace[r]) = 1 /\ is_ins_row(trace[r]) = 1)
        /\ (is_workload_row(trace[r]) = 0 /\ is_ins_row(trace[r]) = 0) =>
              \A q \in r .. Len(trace) :
                 is_workload_row(trace[q]) = 0 /\ is_ins_row(trace[q]) = 0
        /\ eval_general(trace[r], NextRow(trace, r), Selectors(r, Len(trace)))

\* A generated trace of two blocks, one with workload rows, followed by two
\* or more disabled rows.
C30_Witness ==
    /\ Generated
    /\ Len(records) = 2
    /\ Len(trace) >= height + 2
    /\ \E r \in 1 .. height : is_workload_row(trace[r]) = 1
    /\ enabled(trace[height]) = 1
    /\ enabled(trace[height + 1]) = 0


\* -------------------------------------------------------------------- C31
WrapperEvaluated == wlast.op = "eval"

\* The adapter's and the core's part of a row as generate_trace fills them
\* from record k of the wrapper.
FilledAdapterPart(k) ==
    adapter_generate_trace_row([j \in 1 .. AdapterWidth |-> 0],
                               wrecords[k][1], wrecords[k][2])

FilledCorePart(k) ==
    core_generate_trace_row([j \in 1 .. CoreWidth |-> 0], wrecords[k][3])

\* C31: VmAirWrapper::eval splits the local row at the adapter's width, the
\* adapter columns first; it calls the core's evaluator first and the
\* adapter's evaluator second, with the adapter's columns and exactly the
\* context the core returned; and on a row generate_trace filled from a
\* record, the columns each evaluator is given are the ones its own
\* component filled.
C31_EvalComposition ==
    WrapperEvaluated =>
        LET local == WrapperRow(wlast.row)
            c == wlast.calls
        IN  /\ wlast.local = local
            /\ Len(c) = 2
            /\ c[1].fn = "core.eval"
            /\ c[1].local_adapter = SubSeq(local, 1, AdapterWidth)
            /\ c[1].local_core = SubSeq(local, AdapterWidth + 1, Len(local))
            /\ c[1].local_adapter \o c[1].local_core = local
            /\ c[2].fn = "adapter.eval"
            /\ c[2].local = c[1].local_adapter
            /\ c[2].ctx = c[1].ret
            /\ (wlast.row <= Len(wrecords) =>
                  /\ c[1].local_core = FilledCorePart(wlast.row)
                  /\ c[2].local = FilledAdapterPart(wlast.row)
                  /\ wrapper_generate_trace(wrecords) = wtrace)

\* The evaluation of a row filled from the second of three records, whose
\* adapter and core columns start with different values.
C31_Witness ==
    /\ WrapperEvaluated
    /\ Len(wrecords) = 3
    /\ wlast.row = 2
    /\ wlast.calls[2].ctx = wlast.calls[1].ret
    /\ wlast.calls[1].local_core = FilledCorePart(2)
    /\ SubSeq(wlast.local, 1, AdapterWidth) # SubSeq(wlast.local, 1 + CoreWidth, Len(wlast.local))
    /\ wlast.calls[1].local_adapter[1] # wlast.calls[1].local_core[1]

\* -------------------------------------------------------------------- C32
\* The wrapper after n successful execute calls made one after the other on
\* a new wrapper, each from the state the previous one returned: its
\* records, the state the next call starts from, and what the calls were
\* given, in the order they were made.
RECURSIVE WrapperRuns(_)
WrapperRuns(n) ==
    IF n = 0
    THEN {[records |-> <<>>, vm |-> [pc |-> 0, timestamp |-> 1], given |-> <<>>]}
    ELSE {[records |-> wrapper_execute(t[3], t[1].records, t[2], t[1].vm).records,
           vm |-> wrapper_execute(t[3], t[1].records, t[2], t[1].vm).result.state,
           given |-> Append(t[1].given, [instruction |-> t[2], from_state |-> t[1].vm,
                                         env |-> t[3]])] :
            t \in {u \in WrapperRuns(n - 1) \X WrapperInstructions \X Envs :
                     wrapper_execute(u[3], u[1].records, u[2], u[1].vm).result.ok}}

WrapperSamples == UNION {WrapperRuns(n) : n \in 0 .. MaxWrapperInstr}

\* The record triple the wrapper pushes for a call: what the adapter's
\* preprocess, the adapter's postprocess and the core returned for it.
TripleOf(call) ==
    LET pre == preprocess(call.env, call.instruction)
        core == execute_instruction(call.env, call.instruction, call.from_state.pc,
                                    pre.reads)
        post == postprocess(call.env, call.instruction, call.from_state, core.output,
                            pre.read_record)
    IN  <<pre.read_record, post.write_record, core.record>>

\* One more execute on a wrapper of the samples appends the call's triple
\* when it returns Ok, and the records held are those of the calls made, in
\* the order they were made.
WrapperAppendsInOrder ==
    \A s \in WrapperSamples :
        /\ Len(s.records) = Len(s.given)
        /\ \A k \in 1 .. Len(s.given) : s.records[k] = TripleOf(s.given[k])
        /\ \A instruction \in WrapperInstructions, env \in Envs :
              LET r == wrapper_execute(env, s.records, instruction, s.vm)
              IN  r.result.ok =>
                    /\ Len(r.records) = Len(s.records) + 1
                    /\ SubSeq(r.records, 1, Len(s.records)) = s.records
                    /\ r.records[Len(r.records)] =
                         TripleOf([instruction |-> instruction, from_state |-> s.vm,
                                   env |-> env])

\* C32: a successful execute of the FRI chip leaves the records it held in
\* place and appends one record whose pc, start timestamp and instruction
\* are the ones the call was given, so the records are held in the order of
\* their executions (each started later than the one before it); and a
\* successful execute of the generic wrapper appends its record triple in
\* the same way.
C32_AppendedInExecutionOrder ==
    /\ ExecutedOk =>
         /\ Len(records) = Len(last.records) + 1
         /\ SubSeq(records, 1, Len(last.records)) = last.records
         /\ records[Len(records)].pc = last.from_state.pc
         /\ records[Len(records)].start_timestamp = last.from_state.timestamp
         /\ records[Len(records)].instruction = last.instruction
    /\ \A k \in 1 .. Len(records) : \A j \in 1 .. Len(records) :
          k < j => /\ records[k].start_timestamp < records[j].start_timestamp
                   /\ records[k].pc < records[j].pc
    /\ WrapperAppendsInOrder

\* A second successful execute of the chip, given another instruction than
\* the first, beside wrapper runs of as many calls as the bound allows whose
\* records differ.
C32_Witness ==
    /\ ExecutedOk
    /\ Len(records) = 2
    /\ last.records = <<records[1]>>
    /\ records[1].instruction # records[2].instruction
    /\ records[2].instruction = last.instruction
    /\ \E s \in WrapperSamples :
          /\ Len(s.records) = MaxWrapperInstr
          /\ s.records[1] # s.records[2]

====
